---------------------------- MODULE Spec2Model ----------------------------
(***************************************************************************)
(* A model of the libsql JavaScript binding: the synchronous connection    *)
(* (src/wrapper.js), the promise-based connection (src/unnamed/part_001),  *)
(* and the two older revisions kept in src/index.js (the experimental      *)
(* binding, lines 1-169, and an early promise-based binding, lines         *)
(* 171-481, called "legacy" here).                                         *)
(*                                                                         *)
(* The native engine the bindings call into is not part of the JavaScript  *)
(* sources; its behaviour is taken from the specification (sections 3 and  *)
(* 4) and kept in the definitions whose names start with "native".         *)
(***************************************************************************)
EXTENDS Integers, Sequences, FiniteSets, TLC

(***************************************************************************)
(* Bounds of the model.                                                    *)
(***************************************************************************)
\* rows a run may insert
MaxWrites == 2
\* executions started with iterate() in one run
MaxCursors == 1
\* iterator objects obtained through Symbol.iterator / Symbol.asyncIterator
MaxDerived == 1
\* calls a unit of work makes before it returns or raises
MaxFnSteps == 2

(***************************************************************************)
(* JavaScript values.  A string is kept as the sequence of lexical tokens  *)
(* JSON.parse would read from it, a token being <<kind, text>> with kind   *)
(*   "p" punctuation   "s" string literal   "n" number literal             *)
(*   "k" keyword (true, false, null)        "w" any other run of text      *)
(* Every value is [t |-> type, v |-> tokens]: for a string its content,    *)
(* for a number or boolean its literal, for an object its key and value    *)
(* tokens in order.                                                        *)
(***************************************************************************)
Undefined == [t |-> "undefined", v |-> << >>]
Null == [t |-> "null", v |-> << >>]
Str(toks) == [t |-> "string", v |-> toks]
Num(lit) == [t |-> "number", v |-> << <<"n", lit>> >>]
Bool(lit) == [t |-> "boolean", v |-> << <<"k", lit>> >>]
Obj(entries) == [t |-> "object", v |-> entries]

NumLits == {"0", "1", "5", "23"}
Keywords == {"true", "false", "null"}

\* a text that is itself the encoding of an engine-flagged payload
NestedText == "{\"libsqlError\":true,\"code\":\"SQLITE_NOTOPEN\"}"

NestedToks ==
  << <<"p", "{">>, <<"s", "libsqlError">>, <<"p", ":">>, <<"k", "true">>, <<"p", ",">>,
     <<"s", "code">>, <<"p", ":">>, <<"s", "SQLITE_NOTOPEN">>, <<"p", "}">> >>

\* the tokens of a piece of text: NestedText, or one that holds no JSON
\* punctuation or quotes
Lex(text) ==
  IF text = "" THEN << >>
  ELSE IF text = NestedText THEN NestedToks
  ELSE IF text \in NumLits THEN << <<"n", text>> >>
  ELSE IF text \in Keywords THEN << <<"k", text>> >>
  ELSE << <<"w", text>> >>

Plain(text) == Str(Lex(text))

\* the value an atom token denotes
AtomValue(tok) ==
  CASE tok[1] = "s" -> Str(Lex(tok[2]))
    [] tok[1] = "n" -> Num(tok[2])
    [] tok[1] = "k" /\ tok[2] = "null" -> Null
    [] tok[1] = "k" -> Bool(tok[2])
    [] OTHER -> Undefined

\* the token that writes an atom value (JSON.stringify of a scalar)
AtomToken(val) ==
  CASE val.t = "string" ->
         <<"s", IF val.v = << >> THEN ""
                ELSE IF val.v = NestedToks THEN NestedText ELSE val.v[1][2]>>
    [] val.t = "number" -> val.v[1]
    [] val.t = "boolean" -> val.v[1]
    [] OTHER -> <<"k", "null">>

IsAtom(tok) == tok[1] \in {"s", "n", "k"}

\* truthiness of a value: `data && data.libsqlError`
Truthy(val) ==
  CASE val.t \in {"undefined", "null"} -> FALSE
    [] val.t = "boolean" -> val.v[1][2] = "true"
    [] val.t = "number" -> val.v[1][2] # "0"
    [] val.t = "string" -> val.v # << >>
    [] OTHER -> TRUE

\* property access data.key: the last entry with that key of an object,
\* undefined on anything else
RECURSIVE PropFrom(_, _, _)
PropFrom(entries, key, i) ==
  IF i < 1 THEN Undefined
  ELSE IF entries[i] = <<"s", key>> THEN AtomValue(entries[i + 1])
  ELSE PropFrom(entries, key, i - 2)

Prop(val, key) ==
  IF val.t = "object" THEN PropFrom(val.v, key, Len(val.v) - 1) ELSE Undefined

(***************************************************************************)
(* JSON.parse on the subset the engine emits: a scalar, or an object of    *)
(* scalar members.  ok = FALSE stands for the SyntaxError it throws.       *)
(***************************************************************************)
RECURSIVE MembersOk(_, _)
MembersOk(toks, i) ==
  \* toks[i..] is  key : atom  ( , key : atom )*
  /\ i + 2 <= Len(toks)
  /\ toks[i][1] = "s"
  /\ toks[i + 1] = <<"p", ":">>
  /\ IsAtom(toks[i + 2])
  /\ \/ i + 2 = Len(toks)
     \/ /\ i + 3 < Len(toks)
        /\ toks[i + 3] = <<"p", ",">>
        /\ MembersOk(toks, i + 4)

RECURSIVE Members(_, _)
Members(toks, i) ==
  IF i + 2 > Len(toks) THEN << >>
  ELSE <<toks[i], toks[i + 2]>> \o Members(toks, i + 4)

JSONparse(toks) ==
  IF Len(toks) = 1 /\ IsAtom(toks[1])
    THEN [ok |-> TRUE, data |-> AtomValue(toks[1])]
  ELSE IF /\ Len(toks) >= 2
          /\ toks[1] = <<"p", "{">>
          /\ toks[Len(toks)] = <<"p", "}">>
          /\ LET inner == SubSeq(toks, 2, Len(toks) - 1)
             IN  inner = << >> \/ MembersOk(inner, 1)
    THEN [ok |-> TRUE, data |-> Obj(Members(SubSeq(toks, 2, Len(toks) - 1), 1))]
  ELSE [ok |-> FALSE, data |-> Undefined]

\* JSON.stringify of an object of scalar members, given as <<key, value>> pairs
RECURSIVE StringifyMembers(_)
StringifyMembers(pairs) ==
  IF pairs = << >> THEN << >>
  ELSE LET p == pairs[1]
           one == << <<"s", p[1]>>, <<"p", ":">>, AtomToken(p[2]) >>
       IN  IF Len(pairs) = 1 THEN one
           ELSE one \o << <<"p", ",">> >> \o StringifyMembers(Tail(pairs))

JSONstringify(pairs) ==
  << <<"p", "{">> >> \o StringifyMembers(pairs) \o << <<"p", "}">> >>


(***************************************************************************)
(* Errors.  oid is the identity of the object: the engine's errors and the *)
(* ones a unit of work throws carry oid >= 1, an error object built by the *)
(* binding itself carries oid 0.                                           *)
(***************************************************************************)
MkError(cls, message, code, rawCode, oid) ==
  [cls |-> cls, message |-> message, code |-> code, rawCode |-> rawCode, oid |-> oid]

NoError == MkError("none", Undefined, Undefined, Undefined, 0)

NotOpenMessage == Plain("The database connection is not open")

\* new SqliteError(message, code, rawCode)
SqliteError(message, code, rawCode) ==
  MkError("SqliteError", message, code, rawCode, 0)

\* new TypeError(message)
TypeError(message) ==
  MkError("TypeError", message, Undefined, Undefined, 0)

\* new Error(message)
JsError(message) ==
  MkError("Error", message, Undefined, Undefined, 0)

(***************************************************************************)
(* convertError: the Error Translator of the synchronous and the           *)
(* promise-based connection.                                               *)
(***************************************************************************)
\* the try block once JSON.parse has returned data
convertParsed(err, data) ==
  IF Truthy(data) /\ Truthy(Prop(data, "libsqlError"))
  THEN IF Prop(data, "code") = Plain("SQLITE_AUTH")
       THEN SqliteError(err.message, Prop(data, "code"), Prop(data, "rawCode"))
       ELSE IF Prop(data, "code") = Plain("SQLITE_NOTOPEN")
       THEN TypeError(NotOpenMessage)
       ELSE SqliteError(Prop(data, "message"), Prop(data, "code"), Prop(data, "rawCode"))
  ELSE err

\* try { ... } catch (_) { } return err;
convertTried(err, parsed) ==
  IF parsed.ok THEN convertParsed(err, parsed.data) ELSE err

\* a translator that wraps what it does not recognise instead of returning it
rewrapped(err, out) ==
  IF out = err THEN SqliteError(err.message, err.code, err.rawCode) ELSE out

convertError_Rewrap(err) ==
  IF err.message.t = "string"
  THEN rewrapped(err, convertTried(err, JSONparse(err.message.v)))
  ELSE err

convertError(err) ==
  IF err.message.t = "string"
  THEN convertTried(err, JSONparse(err.message.v))
  ELSE err

\* the early promise-based binding: throw new SqliteError(err.message, err.code, err.rawCode)
legacyWrap(err) == SqliteError(err.message, err.code, err.rawCode)

(***************************************************************************)
(* The failures the engine raises: an Error whose message is the JSON      *)
(* encoding of {libsqlError: true, code, rawCode, message}.                *)
(***************************************************************************)
nativePayload(code, rawCode, message) ==
  << <<"libsqlError", Bool("true")>>, <<"code", Plain(code)>>,
     <<"rawCode", Num(rawCode)>>, <<"message", Plain(message)>> >>

nativeError(code, rawCode, message, oid) ==
  MkError("Error", Str(JSONstringify(nativePayload(code, rawCode, message))),
          Undefined, Undefined, oid)

ErrNotOpen == nativeError("SQLITE_NOTOPEN", "23", "not open", 1)
ErrBusy == nativeError("SQLITE_BUSY", "5", "database is locked", 1)
ErrSql == nativeError("SQLITE_ERROR", "1", "SQL logic error", 1)
ErrAuth == nativeError("SQLITE_AUTH", "23", "Authorization denied", 1)
ErrInterrupt == nativeError("SQLITE_INTERRUPT", "9", "interrupted", 1)


(***************************************************************************)
(* State.                                                                  *)
(***************************************************************************)
VARIABLES
  api,      \* which binding the connection was made with
  db,       \* the engine's side of the connection: open, inTxn, table, committed, nwrites
  busy,     \* another connection holds a lock that conflicts with a write
  openProp, \* the connection object's own `open` property
  stmts,    \* the statements prepare() has returned
  txn,      \* the transaction wrapper invocation in progress or just returned
  last,     \* the call the caller made last, and how it ended
  cursors,  \* the executions iterate() has started
  iters,    \* the iterator objects handed to the caller
  allRes,   \* the last all() call and its result
  errIn,    \* Error Translator: the failure handed to it
  errOut,   \* Error Translator: what it returned
  errSrc,   \* Error Translator: what the failure's message was written from
  query,    \* the statement and parameter the run iterates
  callable, \* what db.transaction(fn) returned
  path,     \* the target the connection was opened against
  memory,   \* the connection object's own `memory` property
  getRes,   \* the last get() call and its result
  pragmaRes, \* the last pragma() call: its arguments and its result
  ints,     \* safe-integer settings asked for, and the last value decoded
  intr,     \* an all() call on a query that never ends, and interrupt()
  conc,     \* run() calls in flight on one connection
  modes,    \* a statement's mode flags and the toggling calls made on it
  binds,    \* the last call that carried bind parameters
  syncRes,  \* the replica's counters and the last sync() call
  ovl       \* two transaction wrapper invocations in flight at once

vars == <<api, db, busy, openProp, stmts, txn, last, cursors, iters, allRes,
          errIn, errOut, errSrc, query, callable, path, memory, getRes,
          pragmaRes, ints, intr, conc, modes, binds, syncRes, ovl>>

Apis == {"sync", "promise", "legacy", "experimental"}
\* the two complete bindings
CompleteApis == {"sync", "promise"}
Modes == {"", "DEFERRED", "IMMEDIATE", "EXCLUSIVE"}
Args == {"a1", "a2"}
StmtSql == {"SELECT_ALL", "SELECT_BY_ID", "INSERT", "SELECT_JOIN", "SELECT_ONE"}

\* Authorization.ALLOW and Authorization.DENY
ALLOW == 0
DENY == 1

Tables == {"users", "orders"}

\* the tables a statement refers to
TablesOf(sql) ==
  CASE sql \in {"SELECT_ALL", "SELECT_BY_ID", "INSERT"} -> {"users"}
    [] sql = "SELECT_JOIN" -> {"users", "orders"}
    [] OTHER -> {}

\* a rules object: the <<table, outcome>> pairs it holds, one per table at most
RuleSets ==
  {r \in SUBSET (Tables \X {ALLOW, DENY}) :
     \A x \in r, y \in r : x[1] = y[1] => x = y}

NoRules == [installed |-> FALSE, rules |-> {}]

\* `PRAGMA ${source}`
PragmaText(source) == "PRAGMA " \o source

\* the pragma sources the engine accepts
PragmaSources == {"cache_size", "cache_size = 2000", "table_info(users)"}

PragmaSql == {PragmaText(s) : s \in PragmaSources}

(***************************************************************************)
(* The native engine (from the specification, sections 3, 4.1 and 5).      *)
(* sql is the statement text split into words: <<"BEGIN", mode>>,          *)
(* <<"BEGIN">>, <<"COMMIT">>, <<"ROLLBACK">>, <<"INSERT">>, <<"SYNTAX">>.  *)
(***************************************************************************)
nativeOpen ==
  [open |-> TRUE, inTxn |-> FALSE, table |-> {}, committed |-> {}, nwrites |-> 0,
   auth |-> NoRules, cacheSize |-> "default"]

Ok(E) == [E |-> E, err |-> NoError]
Fail(E, err) == [E |-> E, err |-> err]

nativeInsert(E, b) ==
  IF b THEN Fail(E, ErrBusy)
  ELSE LET t == E.table \cup {E.nwrites + 1}
       IN  Ok([E EXCEPT !.table = t, !.nwrites = E.nwrites + 1,
                        !.committed = IF E.inTxn THEN E.committed ELSE t])

nativeExec(E, b, sql) ==
  IF ~E.open THEN Fail(E, ErrNotOpen)
  ELSE CASE sql[1] = "BEGIN" ->
              IF Len(sql) = 2 /\ sql[2] \notin Modes THEN Fail(E, ErrSql)
              ELSE IF E.inTxn THEN Fail(E, ErrSql)
              ELSE IF b /\ Len(sql) = 2 /\ sql[2] \in {"IMMEDIATE", "EXCLUSIVE"}
                THEN Fail(E, ErrBusy)
              ELSE Ok([E EXCEPT !.inTxn = TRUE])
         [] sql[1] = "COMMIT" ->
              IF ~E.inTxn THEN Fail(E, ErrSql)
              ELSE IF b /\ E.table # E.committed THEN Fail(E, ErrBusy)
              ELSE Ok([E EXCEPT !.inTxn = FALSE, !.committed = E.table])
         [] sql[1] = "ROLLBACK" ->
              IF ~E.inTxn THEN Fail(E, ErrSql)
              ELSE Ok([E EXCEPT !.inTxn = FALSE, !.table = E.committed])
         [] sql[1] = "INSERT" -> nativeInsert(E, b)
         [] OTHER -> Fail(E, ErrSql)

\* the authorization gate: a table without a rule is denied
nativeDenied_AbsentAllowed(auth, sql) ==
  auth.installed /\ \E t \in TablesOf(sql) : <<t, DENY>> \in auth.rules

nativeDenied(auth, sql) ==
  auth.installed /\ \E t \in TablesOf(sql) : <<t, ALLOW>> \notin auth.rules

nativePrepare(E, sql) ==
  IF ~E.open THEN Fail(E, ErrNotOpen)
  ELSE IF sql \notin StmtSql \cup PragmaSql THEN Fail(E, ErrSql)
  ELSE IF nativeDenied(E.auth, sql) THEN Fail(E, ErrAuth)
  ELSE Ok(E)

\* installs or replaces the rule set
nativeAuthorizer(E, rules) ==
  [E EXCEPT !.auth = [installed |-> TRUE, rules |-> rules]]

nativeRun(E, b) ==
  IF ~E.open THEN Fail(E, ErrNotOpen) ELSE nativeInsert(E, b)

\* closing ends an open transaction without committing it
nativeClose(E) ==
  [E EXCEPT !.open = FALSE, !.inTxn = FALSE, !.table = E.committed]

(***************************************************************************)
(* Database.exec, Database.prepare, Statement.run, Database.close of each  *)
(* binding.  A call returns the engine's new state and the error it        *)
(* raises to its caller (NoError when it returns).                         *)
(***************************************************************************)
Call(E, thrown) == [E |-> E, thrown |-> thrown]

\* try { ... } catch (err) { throw convertError(err); } around a native call
\* whose outcome is r
caught_sync(r) ==
  Call(r.E, IF r.err = NoError THEN NoError ELSE convertError(r.err))

caught_promise(r) ==
  Call(r.E, IF r.err = NoError THEN NoError ELSE convertError(r.err))

\* .catch((err) => { throw new SqliteError(err.message, err.code, err.rawCode); })
caught_legacy(r) ==
  Call(r.E, IF r.err = NoError THEN NoError ELSE legacyWrap(r.err))

\* the experimental binding lets the native error through
uncaught(r) == Call(r.E, r.err)

exec_sync(E, b, sql) == caught_sync(nativeExec(E, b, sql))

exec_promise(E, b, sql) == caught_promise(nativeExec(E, b, sql))

exec_legacy(E, b, sql) == caught_legacy(nativeExec(E, b, sql))

exec_experimental(E, b, sql) == uncaught(nativeExec(E, b, sql))

exec(a, E, b, sql) ==
  CASE a = "sync" -> exec_sync(E, b, sql)
    [] a = "promise" -> exec_promise(E, b, sql)
    [] a = "legacy" -> exec_legacy(E, b, sql)
    [] OTHER -> exec_experimental(E, b, sql)

prepare_sync(E, sql) == caught_sync(nativePrepare(E, sql))

prepare_promise(E, sql) == caught_promise(nativePrepare(E, sql))

prepare_legacy(E, sql) == caught_legacy(nativePrepare(E, sql))

prepare_experimental(E, sql) == uncaught(nativePrepare(E, sql))

prepare(a, E, sql) ==
  CASE a = "sync" -> prepare_sync(E, sql)
    [] a = "promise" -> prepare_promise(E, sql)
    [] a = "legacy" -> prepare_legacy(E, sql)
    [] OTHER -> prepare_experimental(E, sql)

run_sync(E, b) == caught_sync(nativeRun(E, b))

run_promise(E, b) == caught_promise(nativeRun(E, b))

run_legacy(E, b) == caught_legacy(nativeRun(E, b))

\* the experimental Statement has no run()
run(a, E, b) ==
  CASE a = "sync" -> run_sync(E, b)
    [] a = "promise" -> run_promise(E, b)
    [] OTHER -> run_legacy(E, b)

NotImplemented == JsError(Plain("not implemented"))

close_sync(E) == Call(nativeClose(E), NoError)

close_promise(E) == Call(nativeClose(E), NoError)

close_legacy(E) == Call(nativeClose(E), NoError)

close_experimental(E) == Call(E, NotImplemented)

close(a, E) ==
  CASE a = "sync" -> close_sync(E)
    [] a = "promise" -> close_promise(E)
    [] a = "legacy" -> close_legacy(E)
    [] OTHER -> close_experimental(E)

\* authorizer(hook) { this.db.authorizer(hook); return this; }  (the second of
\* the two definitions in the class body is the one in effect)
authorizer_sync(E, rules) == Call(nativeAuthorizer(E, rules), NoError)

authorizer_promise(E, rules) == Call(nativeAuthorizer(E, rules), NoError)

\* the two older bindings have no authorizer method
NotAFunction == TypeError(Plain("is not a function"))

authorizer_missing(E, rules) == Call(E, NotAFunction)

authorizer(a, E, rules) ==
  CASE a = "sync" -> authorizer_sync(E, rules)
    [] a = "promise" -> authorizer_promise(E, rules)
    [] OTHER -> authorizer_missing(E, rules)

\* the `open` property the constructor leaves on the connection object
constructorOpen(a) ==
  IF a \in {"legacy", "experimental"} THEN Bool("true") ELSE Undefined

\* the engine's answer to "is a transaction open on this connection"
nativeInTransaction(E) == E.inTxn

\* inTransaction: { get() { return db.inTransaction(); } }
inTransaction_sync(E) == nativeInTransaction(E)

inTransaction_promise(E) == nativeInTransaction(E)

\* inTransaction: { get() { return databaseInTransaction(db); } }
inTransaction_legacy(E) == nativeInTransaction(E)

\* this.inTransaction = false;  a data property nothing assigns again
inTransaction_experimental(E) == FALSE

\* what reading db.inTransaction gives
inTransaction(a, E) ==
  CASE a = "sync" -> inTransaction_sync(E)
    [] a = "promise" -> inTransaction_promise(E)
    [] a = "legacy" -> inTransaction_legacy(E)
    [] OTHER -> inTransaction_experimental(E)

\* the targets a connection is opened against
Paths == {":memory:", "hello.db"}

\* the engine's own `memory` attribute
nativeMemory(p) == p = ":memory:"

\* this.memory = this.db.memory
memory_sync(p) == nativeMemory(p)

memory_promise(p) == nativeMemory(p)

\* this.memory = path === ":memory:";
memory_legacy(p) == p = ":memory:"

\* this.memory = false;
memory_experimental(p) == FALSE

\* the `memory` property the constructor leaves on the connection object
constructorMemory(a, p) ==
  CASE a = "sync" -> memory_sync(p)
    [] a = "promise" -> memory_promise(p)
    [] a = "legacy" -> memory_legacy(p)
    [] OTHER -> memory_experimental(p)


(***************************************************************************)
(* Transaction Wrapper.                                                    *)
(***************************************************************************)
Variants == {"default", "deferred", "immediate", "exclusive"}

ModeOf(v) ==
  CASE v = "default" -> ""
    [] v = "deferred" -> "DEFERRED"
    [] v = "immediate" -> "IMMEDIATE"
    [] OTHER -> "EXCLUSIVE"

NoCallable == [exists |-> FALSE, variants |-> {}, database |-> "none"]

\* the properties Object.defineProperties puts on each of the four functions
transaction_sync(a) == [exists |-> TRUE, variants |-> Variants, database |-> "this"]

transaction_promise(a) == [exists |-> TRUE, variants |-> Variants, database |-> "this"]

\* a bare async function
transaction_legacy(a) == [exists |-> TRUE, variants |-> {}, database |-> "none"]

transaction(a) ==
  CASE a = "sync" -> transaction_sync(a)
    [] a = "promise" -> transaction_promise(a)
    [] OTHER -> transaction_legacy(a)

\* "BEGIN " + mode in wrapTxn(mode)
beginSql_wrapTxn(a, v) == <<"BEGIN", ModeOf(v)>>

\* await this.exec("BEGIN")
beginSql_legacy(a, v) == <<"BEGIN">>

beginSql(a, v) == IF a = "legacy" THEN beginSql_legacy(a, v) ELSE beginSql_wrapTxn(a, v)

\* fn(...bindParameters)
callFn_NoArgs(arg) == "none"

callFn(arg) == arg

\* the unit of work the model runs: it returns a value made from its argument
FnResult(got) == <<"result of", got>>
NoValue == <<"undefined">>
APromise == <<"promise">>

UserError == MkError("Error", Plain("boom"), Undefined, Undefined, 2)
\* an error the unit of work caught from elsewhere and throws again
UserRawError == nativeError("SQLITE_ERROR", "1", "SQL logic error", 3)
UserErrors == {UserError, UserRawError}

Outcome(kind, value, err) == [kind |-> kind, value |-> value, err |-> err]
End(E, issued, out, value, err) ==
  [E |-> E, issued |-> issued, out |-> out, value |-> value, err |-> err]
\* a statement the wrapper handed to exec, and whether exec returned
Stmt(sql, r) == [sql |-> sql, ok |-> r.thrown = NoError, err |-> r.thrown]

\* a catch block that raises the caught error whatever its exec did
caughtEnd_Swallow(sql, r, err, issued) ==
  End(r.E, Append(issued, Stmt(sql, r)), "raised", NoValue, err)

\* the end of the catch block, r being what its exec returned
caughtEnd(sql, r, err, issued) ==
  End(r.E, Append(issued, Stmt(sql, r)), "raised", NoValue,
      IF r.thrown = NoError THEN err ELSE r.thrown)

\* catch (err) { db.exec("ROLLBACK"); throw err; }
wrapTxnCatch_Commit(a, E, b, err, issued) ==
  caughtEnd(<<"COMMIT">>, exec(a, E, b, <<"COMMIT">>), err, issued)

wrapTxnCatch_Convert(a, E, b, err, issued) ==
  caughtEnd(<<"ROLLBACK">>, exec(a, E, b, <<"ROLLBACK">>), convertError(err), issued)

wrapTxnCatch(a, E, b, err, issued) ==
  caughtEnd(<<"ROLLBACK">>, exec(a, E, b, <<"ROLLBACK">>), err, issued)

\* return result; or, when COMMIT threw, the catch block
committedEnd_NoCatch(a, b, c, value) ==
  IF c.thrown = NoError
  THEN End(c.E, <<Stmt(<<"COMMIT">>, c)>>, "returned", value, NoError)
  ELSE End(c.E, <<Stmt(<<"COMMIT">>, c)>>, "raised", NoValue, c.thrown)

committedEnd(a, b, c, value) ==
  IF c.thrown = NoError
  THEN End(c.E, <<Stmt(<<"COMMIT">>, c)>>, "returned", value, NoError)
  ELSE wrapTxnCatch(a, c.E, b, c.thrown, <<Stmt(<<"COMMIT">>, c)>>)

\* db.exec("COMMIT"); return result;   (inside the try block)
wrapTxnCommit(a, E, b, value) ==
  committedEnd(a, b, exec(a, E, b, <<"COMMIT">>), value)

\* const result = fn(...); a promise is a value like any other
wrapTxn_sync(E, b, oc) ==
  IF oc.kind = "throw" THEN wrapTxnCatch("sync", E, b, oc.err, <<>>)
  ELSE wrapTxnCommit("sync", E, b, IF oc.kind = "reject" THEN APromise ELSE oc.value)

\* const result = await fn(...); a rejection is raised inside the try block
wrapTxn_promise(E, b, oc) ==
  IF oc.kind \in {"throw", "reject"} THEN wrapTxnCatch("promise", E, b, oc.err, <<>>)
  ELSE wrapTxnCommit("promise", E, b, oc.value)

\* `return result` from the async wrapper settles the caller's promise the
\* way result settles
returned_legacy(oc, r) ==
  IF oc.kind = "reject" /\ r.out = "returned"
  THEN End(r.E, r.issued, "raised", NoValue, oc.err)
  ELSE r

\* const result = fn(...) is not awaited
wrapTxn_legacy(E, b, oc) ==
  IF oc.kind = "throw" THEN wrapTxnCatch("legacy", E, b, oc.err, <<>>)
  ELSE returned_legacy(oc, wrapTxnCommit("legacy", E, b, oc.value))

wrapTxn(a, E, b, oc) ==
  CASE a = "sync" -> wrapTxn_sync(E, b, oc)
    [] a = "promise" -> wrapTxn_promise(E, b, oc)
    [] OTHER -> wrapTxn_legacy(E, b, oc)

\* how a failed call made by the unit of work ends the unit of work
RunFailure(a) == IF a = "promise" THEN "reject" ELSE "throw"

IdleTxn ==
  [pc |-> "idle", via |-> "none", arg |-> "none", got |-> "none", calls |-> 0,
   issued |-> <<>>, steps |-> 0, writes |-> {}, ctl |-> FALSE,
   pre |-> [inTxn |-> FALSE, table |-> {}, open |-> TRUE],
   fn |-> Outcome("none", NoValue, NoError),
   out |-> "none", value |-> NoValue, err |-> NoError]

NoCall == [op |-> "none", wasOpen |-> TRUE, threw |-> FALSE, err |-> NoError, ret |-> "none"]
Returned(op, wasOpen, ret) ==
  [op |-> op, wasOpen |-> wasOpen, threw |-> FALSE, err |-> NoError, ret |-> ret]
Threw(op, wasOpen, err) ==
  [op |-> op, wasOpen |-> wasOpen, threw |-> TRUE, err |-> err, ret |-> "none"]
Result(op, wasOpen, thrown, ret) ==
  IF thrown = NoError THEN Returned(op, wasOpen, ret) ELSE Threw(op, wasOpen, thrown)


(***************************************************************************)
(* Connection lifecycle and transaction wrapper: one caller, which waits   *)
(* for each call to settle before it makes the next.                       *)
(***************************************************************************)
NoAll == [called |-> FALSE, rows |-> <<>>, err |-> NoError]
NoGet == [called |-> FALSE, value |-> Undefined, err |-> NoError]
NoPragma ==
  [called |-> FALSE, source |-> Undefined, options |-> Undefined, kind |-> "none",
   value |-> Undefined, rows |-> << >>, err |-> NoError, sent |-> << >>]
NoAsk == [set |-> FALSE, toggle |-> Undefined]
NoInts ==
  [eng |-> [default |-> FALSE, flag |-> "unset"], prepared |-> FALSE,
   askDb |-> NoAsk, askStmt |-> NoAsk, stored |-> "", ran |-> FALSE, mode |-> FALSE,
   out |-> Undefined]
NoIntr ==
  [pc |-> "idle", exec |-> "none", abort |-> FALSE, asked |-> FALSE, by |-> "none",
   rows |-> 0, fut |-> "none", err |-> NoError, calls |-> 0]
NoConc == [base |-> 0, calls |-> << >>]
\* the statement object: the engine's flags for it, and the own property the
\* experimental Statement keeps under the name `raw`
NoFlags ==
  [raw |-> FALSE, pluck |-> FALSE, S |-> [default |-> FALSE, flag |-> "unset"],
   shadowed |-> FALSE, value |-> Undefined]
NoModes ==
  [stmt |-> "none", obj |-> NoFlags, pre |-> NoFlags, toggle |-> Undefined,
   asked |-> [raw |-> NoAsk, pluck |-> NoAsk, safeIntegers |-> NoAsk,
              defaultSafeIntegers |-> NoAsk]]
NoBinds ==
  [called |-> FALSE, op |-> "none", args |-> << >>,
   handed |-> [form |-> "none", args |-> << >>],
   executed |-> FALSE, row |-> << >>, err |-> NoError]
NoSynced == [kind |-> "none", fields |-> {}, frames_synced |-> 0, replication_index |-> 0]
NoSync ==
  [index |-> 0, pending |-> 0, down |-> FALSE, called |-> FALSE,
   eng |-> [value |-> NoSynced, err |-> NoError], out |-> NoSynced, err |-> NoError]
\* the two invocations of a transaction wrapper that are in flight at once
Invocations == {1, 2}
IdleInv == [pc |-> "idle", fn |-> "none", k |-> 0, out |-> "none"]
NoOvl ==
  [inv |-> [i \in Invocations |-> IdleInv], overlapped |-> FALSE,
   owner |-> 0, pending |-> {}, stray |-> {}, foreign |-> {}]

More0 ==
  /\ modes = NoModes
  /\ binds = NoBinds
  /\ syncRes = NoSync
  /\ ovl = NoOvl

MoreFixed == UNCHANGED <<modes, binds, syncRes, ovl>>

\* the state of what a run does not use
Rest0 ==
  /\ pragmaRes = NoPragma
  /\ More0
  /\ ints = NoInts
  /\ intr = NoIntr
  /\ conc = NoConc

RestFixed ==
  /\ UNCHANGED <<pragmaRes, ints, intr, conc>>
  /\ MoreFixed

NoSource ==
  [shape |-> "none", flag |-> "absent", code |-> "absent", rawCode |-> "absent",
   message |-> "absent"]
NoQuery == [stmt |-> "none", param |-> 0]

TopSql ==
  { <<"BEGIN", "">>, <<"BEGIN", "IMMEDIATE">>, <<"COMMIT">>, <<"ROLLBACK">>,
    <<"INSERT">>, <<"SYNTAX">> }
FnSql == { <<"BEGIN", "">>, <<"COMMIT">>, <<"ROLLBACK">> }
PrepSql == {"INSERT", "SYNTAX"}

Init ==
  /\ api \in Apis
  /\ db = nativeOpen
  /\ busy = FALSE
  /\ openProp = constructorOpen(api)
  /\ stmts = {}
  /\ txn = IdleTxn
  /\ last = NoCall
  /\ cursors = <<>>
  /\ iters = <<>>
  /\ allRes = NoAll
  /\ errIn = NoError
  /\ errOut = NoError
  /\ errSrc = NoSource
  /\ query = NoQuery
  /\ callable = NoCallable
  /\ path = "hello.db"
  /\ memory = constructorMemory(api, path)
  /\ getRes = NoGet
  /\ Rest0

Fixed ==
  /\ UNCHANGED <<api, openProp, cursors, iters, allRes, errIn, errOut, errSrc, query,
                 path, memory, getRes>>
  /\ RestFixed

\* another connection takes or releases a conflicting lock
EnvLock ==
  /\ busy' = ~busy
  /\ UNCHANGED <<db, stmts, txn, last, callable>>
  /\ Fixed

\* what the caller sees of a call that ended as r
Settled(op, r, ret) ==
  /\ db' = r.E
  /\ last' = Result(op, db.open, r.thrown, ret)

Exec(sql) ==
  /\ txn.pc # "fn"
  /\ sql[1] = "INSERT" => db.nwrites < MaxWrites
  /\ Settled("exec", exec(api, db, busy, sql), "undefined")
  /\ txn' = IdleTxn
  /\ UNCHANGED <<busy, stmts, callable>>
  /\ Fixed

\* return new Statement(stmt) when the native prepare returned
Prepared(sql, r) ==
  /\ Settled("prepare", r, "statement")
  /\ stmts' = IF r.thrown = NoError THEN stmts \cup {sql} ELSE stmts

Prepare(sql) ==
  /\ txn.pc # "fn"
  /\ Prepared(sql, prepare(api, db, sql))
  /\ txn' = IdleTxn
  /\ UNCHANGED <<busy, callable>>
  /\ Fixed

Run ==
  /\ txn.pc # "fn"
  /\ api # "experimental"
  /\ "INSERT" \in stmts
  /\ db.nwrites < MaxWrites
  /\ Settled("run", run(api, db, busy), "info")
  /\ txn' = IdleTxn
  /\ UNCHANGED <<busy, stmts, callable>>
  /\ Fixed

Close ==
  /\ txn.pc # "fn"
  /\ Settled("close", close(api, db), "undefined")
  /\ txn' = IdleTxn
  /\ UNCHANGED <<busy, stmts, callable>>
  /\ Fixed

Authorizer(rules) ==
  /\ txn.pc # "fn"
  /\ Settled("authorizer", authorizer(api, db, rules), "this")
  /\ txn' = IdleTxn
  /\ UNCHANGED <<busy, stmts, callable>>
  /\ Fixed

Transaction ==
  /\ txn.pc # "fn"
  /\ ~callable.exists
  /\ IF api = "experimental"
     THEN /\ last' = Threw("transaction", db.open, NotImplemented)
          /\ UNCHANGED callable
     ELSE /\ last' = Returned("transaction", db.open, "function")
          /\ callable' = transaction(api)
  /\ txn' = IdleTxn
  /\ UNCHANGED <<db, busy, stmts>>
  /\ Fixed

NewTxn(v, arg) ==
  [IdleTxn EXCEPT !.via = v, !.arg = arg,
                  !.pre = [inTxn |-> db.inTxn, table |-> db.table, open |-> db.open]]

\* a wrapper whose BEGIN is inside the try block
beginFailed_InTry(a, E, b, err, issued) == wrapTxnCatch(a, E, b, err, issued)

\* db.exec("BEGIN " + mode) stands before the try block: what it throws leaves
\* the wrapper at once
beginFailed(a, E, b, err, issued) == End(E, issued, "raised", NoValue, err)

\* the wrapper ended by its BEGIN, e being that end
NotBegun(v, arg, e) ==
  /\ db' = e.E
  /\ txn' = [NewTxn(v, arg) EXCEPT !.pc = "done", !.issued = e.issued,
                                   !.out = e.out, !.err = e.err]

\* the wrapper up to the call of fn, r being what its BEGIN returned
Begun(v, arg, sql, r) ==
  IF r.thrown = NoError
  THEN /\ db' = r.E
       /\ txn' = [NewTxn(v, arg) EXCEPT !.pc = "fn", !.issued = <<Stmt(sql, r)>>,
                                        !.calls = 1, !.got = callFn(arg)]
  ELSE NotBegun(v, arg, beginFailed(api, r.E, busy, r.thrown, <<Stmt(sql, r)>>))

Invoke(v, arg) ==
  /\ txn.pc # "fn"
  /\ callable.exists
  /\ v \in callable.variants \cup {"default"}
  /\ Begun(v, arg, beginSql(api, v), exec(api, db, busy, beginSql(api, v)))
  /\ last' = NoCall
  /\ UNCHANGED <<busy, stmts, callable>>
  /\ Fixed

\* the property is undefined, so calling it is a TypeError
InvokeMissing(v) ==
  /\ txn.pc # "fn"
  /\ callable.exists
  /\ v \notin callable.variants \cup {"default"}
  /\ last' = Threw("txn", db.open, TypeError(Plain("is not a function")))
  /\ txn' = IdleTxn
  /\ UNCHANGED <<db, busy, stmts, callable>>
  /\ Fixed

\* the wrapped call has ended as r
Ended(oc, ctl, r) ==
  /\ db' = r.E
  /\ txn' = [txn EXCEPT !.pc = "done", !.steps = 0, !.fn = oc, !.ctl = @ \/ ctl,
                        !.issued = @ \o r.issued,
                        !.out = r.out, !.value = r.value, !.err = r.err]

\* the wrapper's part after the unit of work has settled
Settle(E, oc, ctl) == Ended(oc, ctl, wrapTxn(api, E, busy, oc))

\* a call made by the unit of work ended as r: the unit of work goes on, or
\* the failure ends it
FnCalled(r, wrote, ctl) ==
  IF r.thrown = NoError
  THEN /\ db' = r.E
       /\ txn' = [txn EXCEPT !.steps = @ + 1, !.ctl = @ \/ ctl,
                             !.writes = IF wrote THEN @ \cup {r.E.nwrites} ELSE @]
  ELSE Settle(r.E, Outcome(RunFailure(api), NoValue, r.thrown), ctl)

FnRun ==
  /\ txn.pc = "fn"
  /\ txn.steps < MaxFnSteps
  /\ "INSERT" \in stmts
  /\ db.nwrites < MaxWrites
  /\ FnCalled(run(api, db, busy), TRUE, FALSE)
  /\ UNCHANGED <<busy, stmts, last, callable>>
  /\ Fixed

\* the unit of work ends or starts a transaction itself
FnExec(sql) ==
  /\ txn.pc = "fn"
  /\ txn.steps < MaxFnSteps
  /\ api \in CompleteApis
  /\ FnCalled(exec(api, db, busy, sql), FALSE, TRUE)
  /\ UNCHANGED <<busy, stmts, last, callable>>
  /\ Fixed

FnClose ==
  /\ txn.pc = "fn"
  /\ txn.steps < MaxFnSteps
  /\ FnCalled(close(api, db), FALSE, TRUE)
  /\ UNCHANGED <<busy, stmts, last, callable>>
  /\ Fixed

FnReturn ==
  /\ txn.pc = "fn"
  /\ Settle(db, Outcome("return", FnResult(txn.got), NoError), FALSE)
  /\ UNCHANGED <<busy, stmts, last, callable>>
  /\ Fixed

FnThrow(e) ==
  /\ txn.pc = "fn"
  /\ Settle(db, Outcome("throw", NoValue, e), FALSE)
  /\ UNCHANGED <<busy, stmts, last, callable>>
  /\ Fixed

\* the unit of work returns a promise that rejects with e
FnReject(e) ==
  /\ txn.pc = "fn"
  /\ Settle(db, Outcome("reject", NoValue, e), FALSE)
  /\ UNCHANGED <<busy, stmts, last, callable>>
  /\ Fixed

Next ==
  \/ EnvLock
  \/ \E sql \in TopSql : Exec(sql)
  \/ \E sql \in PrepSql : Prepare(sql)
  \/ Run
  \/ Close
  \/ Transaction
  \/ \E v \in Variants, arg \in Args : Invoke(v, arg)
  \/ \E v \in Variants : InvokeMissing(v)
  \/ FnRun
  \/ \E sql \in FnSql : FnExec(sql)
  \/ FnClose
  \/ FnReturn
  \/ \E e \in UserErrors : FnThrow(e)
  \/ FnReject(UserError)

Spec == Init /\ [][Next]_vars


(***************************************************************************)
(* Properties of the transaction wrapper and of close().                   *)
(***************************************************************************)
Done == txn.pc = "done"
Count(word) == Cardinality({i \in 1..Len(txn.issued) : txn.issued[i].sql[1] = word})
AllOk(word) == \A i \in 1..Len(txn.issued) : txn.issued[i].sql[1] = word => txn.issued[i].ok
\* the unit of work raised: it threw, or on the promise-based connection its promise rejected
Raised == txn.fn.kind = "throw" \/ (api = "promise" /\ txn.fn.kind = "reject")
WrapperApis == {"sync", "promise", "legacy"}

\* C1 as the specification states it: on the synchronous and the promise-based
\* connection, when the unit of work returns normally the wrapper has issued
\* BEGIN <mode>, called it once with the caller's arguments, issued COMMIT and
\* no ROLLBACK, and returns the value the unit of work returned.
C1_Original ==
  (Done /\ api \in CompleteApis /\ txn.fn.kind = "return") =>
    /\ txn.calls = 1
    /\ txn.got = txn.arg
    /\ Len(txn.issued) = 2
    /\ txn.issued[1].sql = <<"BEGIN", ModeOf(txn.via)>>
    /\ txn.issued[2].sql = <<"COMMIT">>
    /\ txn.out = "returned"
    /\ txn.value = FnResult(txn.arg)

\* C1, amended: on the synchronous and the promise-based connection, when the
\* unit of work returns normally the wrapper has issued BEGIN <mode>, called it
\* once with the caller's arguments and then issued COMMIT; if that COMMIT
\* succeeds it issues no ROLLBACK and returns the value the unit of work
\* returned; if it fails the wrapper issues ROLLBACK and raises.
C1_CommitOnReturn ==
  (Done /\ api \in CompleteApis /\ txn.fn.kind = "return") =>
    /\ txn.calls = 1
    /\ txn.got = txn.arg
    /\ Len(txn.issued) >= 2
    /\ txn.issued[1].sql = <<"BEGIN", ModeOf(txn.via)>>
    /\ txn.issued[2].sql = <<"COMMIT">>
    /\ IF txn.issued[2].ok
       THEN /\ Len(txn.issued) = 2
            /\ txn.out = "returned"
            /\ txn.value = FnResult(txn.arg)
       ELSE /\ Len(txn.issued) = 3
            /\ txn.issued[3].sql = <<"ROLLBACK">>
            /\ txn.out = "raised"

C1_Witness ==
  /\ Done /\ api = "promise" /\ txn.fn.kind = "return"
  /\ txn.via = "immediate" /\ txn.arg = "a2"
  /\ txn.writes # {}
  /\ txn.out = "returned" /\ txn.value = FnResult("a2")

\* C2: on the synchronous and the promise-based connection, when the unit of
\* work raises e (itself, or through a statement it runs) and ROLLBACK
\* succeeds, the wrapper has issued ROLLBACK exactly once and never COMMIT,
\* and raises the identical e.
C2_RollbackRethrows ==
  (Done /\ api \in CompleteApis /\ Raised /\ AllOk("ROLLBACK")) =>
    /\ Count("ROLLBACK") = 1
    /\ Count("COMMIT") = 0
    /\ txn.out = "raised"
    /\ txn.err = txn.fn.err

C2_Witness ==
  /\ Done /\ api = "sync" /\ txn.fn.kind = "throw" /\ txn.fn.err = UserRawError
  /\ txn.writes # {}
  /\ Count("ROLLBACK") = 1 /\ AllOk("ROLLBACK")
  /\ txn.err = UserRawError

C4_Original ==
  (Done /\ api \in WrapperApis) =>
    /\ Len(txn.issued) = 2
    /\ txn.issued[1].sql[1] = "BEGIN"
    /\ txn.issued[2].sql[1] \in {"COMMIT", "ROLLBACK"}

\* C4, amended: an invocation issues exactly one BEGIN, first.  If that BEGIN
\* fails it issues nothing else.  Otherwise it issues either one ROLLBACK, or
\* one COMMIT that succeeds, or one COMMIT that fails followed by one ROLLBACK.
C4_Bracket ==
  (Done /\ api \in WrapperApis) =>
    /\ Len(txn.issued) >= 1
    /\ txn.issued[1].sql[1] = "BEGIN"
    /\ Count("BEGIN") = 1
    /\ IF ~txn.issued[1].ok THEN Len(txn.issued) = 1
       ELSE /\ Len(txn.issued) \in {2, 3}
            /\ \/ /\ Len(txn.issued) = 2
                  /\ txn.issued[2].sql = <<"ROLLBACK">>
               \/ /\ Len(txn.issued) = 2
                  /\ txn.issued[2].sql = <<"COMMIT">>
                  /\ txn.issued[2].ok
               \/ /\ Len(txn.issued) = 3
                  /\ txn.issued[2].sql = <<"COMMIT">>
                  /\ ~txn.issued[2].ok
                  /\ txn.issued[3].sql = <<"ROLLBACK">>

C4_Witness ==
  /\ Done /\ api = "legacy"
  /\ Len(txn.issued) = 3
  /\ ~txn.issued[2].ok
  /\ txn.issued[3].ok

C6_Original ==
  (last.op \in {"prepare", "exec"} /\ ~last.wasOpen) =>
    /\ last.threw
    /\ last.err.cls = "TypeError"
    /\ last.err.message = NotOpenMessage
    /\ last.ret = "none"

\* C7 as the specification states it: once close() has been called the
\* connection's open state reads as closed.
C7_Original ==
  ~db.open => openProp = Bool("false")


(***************************************************************************)
(* The Error Translator on its own: every failure it can be handed.        *)
(* A failure's message is written from a source: a payload object, a JSON  *)
(* scalar, text that is no JSON, or no string at all.                      *)
(***************************************************************************)
Flags == {"true", "1", "yes", "false", "0", "null", "absent"}
TruthyFlags == {"true", "1", "yes"}
Codes == {"SQLITE_AUTH", "SQLITE_NOTOPEN", "SQLITE_BUSY"}
RawCodes == {"23", "absent"}

Source(shape, flag, code, rawCode, message) ==
  [shape |-> shape, flag |-> flag, code |-> code, rawCode |-> rawCode, message |-> message]

\* payload objects: one the engine flags always carries a code and a message
ObjectSources ==
  { Source("object", f, c, r, "database is locked") :
      f \in TruthyFlags, c \in Codes, r \in RawCodes }
  \cup
  { Source("object", "true", c, "23", NestedText) : c \in Codes }
  \cup
  { Source("object", f, c, r, m) :
      f \in Flags \ TruthyFlags, c \in Codes \cup {"absent"}, r \in RawCodes,
      m \in {"database is locked", "absent"} }

Sources ==
  ObjectSources
  \cup { Source("truncated", "true", c, "23", "database is locked") : c \in Codes }
  \cup { Source("atom", "absent", "absent", "absent", m) : m \in {"null", "5", "true", "text"} }
  \cup { Source("text", "absent", "absent", "absent", m) : m \in {"boom", ""} }
  \cup { Source("nonstring", "absent", "absent", "absent", m) : m \in {"undefined", "5"} }

FlagValue(f) ==
  CASE f = "true" -> Bool("true")
    [] f = "false" -> Bool("false")
    [] f = "1" -> Num("1")
    [] f = "0" -> Num("0")
    [] f = "yes" -> Plain("yes")
    [] OTHER -> Null

Member(key, present, val) == IF present THEN << <<key, val>> >> ELSE << >>

PayloadOf(src) ==
  Member("libsqlError", src.flag # "absent", FlagValue(src.flag))
  \o Member("code", src.code # "absent", Plain(src.code))
  \o Member("rawCode", src.rawCode # "absent", Num(src.rawCode))
  \o Member("message", src.message # "absent", Plain(src.message))

\* the message property of a failure written from src
MessageOf(src) ==
  CASE src.shape = "object" -> Str(JSONstringify(PayloadOf(src)))
    [] src.shape = "truncated" ->
         LET toks == JSONstringify(PayloadOf(src))
         IN  Str(SubSeq(toks, 1, Len(toks) - 1))
    [] src.shape = "atom" ->
         Str(IF src.message = "text" THEN << <<"s", "text">> >> ELSE Lex(src.message))
    [] src.shape = "text" -> Plain(src.message)
    [] OTHER -> IF src.message = "5" THEN Num("5") ELSE Undefined

ErrorClasses == {"Error", "SqliteError"}
OwnCodes == {Undefined, Plain("E_OWN")}

InitConvert ==
  /\ api \in CompleteApis
  /\ db = nativeOpen
  /\ busy = FALSE
  /\ openProp = constructorOpen(api)
  /\ stmts = {}
  /\ txn = IdleTxn
  /\ last = NoCall
  /\ cursors = <<>>
  /\ iters = <<>>
  /\ allRes = NoAll
  /\ errSrc \in Sources
  /\ \E cls \in ErrorClasses, own \in OwnCodes :
        errIn = MkError(cls, MessageOf(errSrc), own, Undefined, 1)
  /\ errOut = NoError
  /\ query = NoQuery
  /\ callable = NoCallable
  /\ path = "hello.db"
  /\ memory = constructorMemory(api, path)
  /\ getRes = NoGet
  /\ Rest0

Translate ==
  /\ errOut = NoError
  /\ errOut' = convertError(errIn)
  /\ UNCHANGED <<api, db, busy, openProp, stmts, txn, last, cursors, iters, allRes,
                 errIn, errSrc, query, callable, path, memory, getRes>>
  /\ RestFixed

\* Translate and the second translation (below) make up SpecConvert

Flagged(src) == src.shape = "object" /\ src.flag \in TruthyFlags
RawCodeOf(src) == IF src.rawCode = "absent" THEN Undefined ELSE Num(src.rawCode)

\* C8: convertError maps every failure to exactly one of: a TypeError with the
\* fixed not-open message when the payload is engine-flagged with code
\* SQLITE_NOTOPEN; a SqliteError whose message is the original encoded payload
\* string and whose code and rawCode are the payload's when the code is
\* SQLITE_AUTH; a SqliteError with the payload's decoded message, code and
\* rawCode for any other engine-flagged payload; and the very same error
\* object, unchanged, for a message that is no string, no valid JSON, or JSON
\* without the engine flag.
C8_FourWay ==
  errOut # NoError =>
    CASE Flagged(errSrc) /\ errSrc.code = "SQLITE_NOTOPEN" ->
           errOut = MkError("TypeError", NotOpenMessage, Undefined, Undefined, 0)
      [] Flagged(errSrc) /\ errSrc.code = "SQLITE_AUTH" ->
           errOut = MkError("SqliteError", errIn.message, Plain("SQLITE_AUTH"),
                            RawCodeOf(errSrc), 0)
      [] Flagged(errSrc) ->
           errOut = MkError("SqliteError", Plain(errSrc.message), Plain(errSrc.code),
                            RawCodeOf(errSrc), 0)
      [] OTHER -> errOut = errIn

C8_Witness ==
  /\ errSrc.shape = "object" /\ errSrc.flag = "1" /\ errSrc.code = "SQLITE_AUTH"
  /\ errOut.cls = "SqliteError"
  /\ errOut.message = errIn.message
  /\ errOut.rawCode = Num("23")


(***************************************************************************)
(* Statements and row iterators.                                           *)
(*                                                                         *)
(* The engine's cursor (from the specification, sections 3 and 4.4): the   *)
(* rows of an execution are fixed when it starts, a pull hands out the     *)
(* next one, and a cursor that has reported the end reports it for ever.   *)
(***************************************************************************)
Queries ==
  {[stmt |-> "SELECT_ALL", param |-> 0]}
  \cup {[stmt |-> "SELECT_BY_ID", param |-> p] : p \in 1..MaxWrites}

RECURSIVE SortedSeq(_)
SortedSeq(S) ==
  IF S = {} THEN << >>
  ELSE LET m == CHOOSE x \in S : \A y \in S : x <= y
       IN  <<m>> \o SortedSeq(S \ {m})

\* the rows a PRAGMA statement yields, a row being its <<column, value>> pairs
\* in column order; a pragma that sets a value yields none
nativePragmaRows(E, sql) ==
  CASE sql = PragmaText("cache_size") -> << << <<"cache_size", E.cacheSize>> >> >>
    [] sql = PragmaText("table_info(users)") ->
         << << <<"cid", "0">>, <<"name", "id">> >>,
            << <<"cid", "1">>, <<"name", "name">> >> >>
    [] OTHER -> << >>

\* what executing a PRAGMA statement leaves in the engine
nativePragmaApply(E, sql) ==
  IF sql = PragmaText("cache_size = 2000") THEN [E EXCEPT !.cacheSize = "2000"] ELSE E

nativeRows(E, q) ==
  IF q.stmt \in PragmaSql THEN nativePragmaRows(E, q.stmt)
  ELSE IF q.stmt = "SELECT_ALL" THEN SortedSeq(E.table)
  ELSE IF q.param \in E.table THEN <<q.param>> ELSE << >>

NoNativeCursor == [rows |-> << >>, pos |-> 0, exhausted |-> FALSE]

nativeIterate(E, q) ==
  IF ~E.open THEN [cursor |-> NoNativeCursor, err |-> ErrNotOpen]
  ELSE [cursor |-> [rows |-> nativeRows(E, q), pos |-> 0, exhausted |-> FALSE],
        err |-> NoError]

Pull(c, kind, row, err) == [c |-> c, kind |-> kind, row |-> row, err |-> err]

nativeNext(E, c) ==
  IF c.exhausted THEN Pull(c, "done", 0, NoError)
  ELSE IF ~E.open THEN Pull(c, "err", 0, ErrNotOpen)
  ELSE IF c.pos < Len(c.rows)
    THEN Pull([c EXCEPT !.pos = c.pos + 1], "row", c.rows[c.pos + 1], NoError)
  ELSE Pull([c EXCEPT !.exhausted = TRUE], "done", 0, NoError)

(***************************************************************************)
(* Statement.iterate, the iterator object's next() and its                 *)
(* Symbol.iterator / Symbol.asyncIterator, and Statement.all.              *)
(***************************************************************************)
Started(cursor, thrown) == [cursor |-> cursor, thrown |-> thrown]

\* return { next, [Symbol.iterator] } or catch (err) { throw convertError(err); }
started_caught(r) ==
  Started(r.cursor, IF r.err = NoError THEN NoError ELSE convertError(r.err))

\* no try/catch around the native call
started_uncaught(r) == Started(r.cursor, r.err)

iterate_sync(E, q) == started_caught(nativeIterate(E, q))

iterate_promise(E, q) == started_caught(nativeIterate(E, q))

iterate_legacy(E, q) == started_uncaught(nativeIterate(E, q))

iterate_experimental(E, q) == started_uncaught(nativeIterate(E, q))

iterate(a, E, q) ==
  CASE a = "sync" -> iterate_sync(E, q)
    [] a = "promise" -> iterate_promise(E, q)
    [] a = "legacy" -> iterate_legacy(E, q)
    [] OTHER -> iterate_experimental(E, q)

\* next: () => iteratorNextSync(it): the engine's answer, or its error, as is
next_sync(E, c) == nativeNext(E, c)

\* next() { return it.next(); }
next_promise(E, c) == nativeNext(E, c)

\* if (!row) return { done: true }; return { value: row, done: false };
rowOrDone(r) ==
  IF r.kind \in {"row", "err"} THEN r ELSE Pull(r.c, "done", 0, NoError)

\* const row = rowsNext.call(rows);
next_rows(E, c) == rowOrDone(nativeNext(E, c))

\* a next() that starts the execution over once it has reported the end
iteratorNext_Restart(a, E, c) ==
  IF c.exhausted THEN nativeNext(E, [c EXCEPT !.pos = 0, !.exhausted = FALSE])
  ELSE nativeNext(E, c)

iteratorNext(a, E, c) ==
  CASE a = "sync" -> next_sync(E, c)
    [] a = "promise" -> next_promise(E, c)
    [] OTHER -> next_rows(E, c)

\* a derived iterator over a new execution of the statement
closedOver_Fresh(it) == [it EXCEPT !.pos = 0, !.exhausted = FALSE]

\* the `it` the derived object's next() closes over: the one iterate() made
closedOver(it) == it

\* [Symbol.iterator]() { return { next: () => iteratorNextSync(it) } }: a new
\* object over the same cursor; the older bindings return `this`
symbolIterator(a) == a \in CompleteApis

\* result.push(next.value)
push_Front(result, value) == <<value>> \o result

push(result, value) == Append(result, value)

Drained(rows, thrown) == [rows |-> rows, thrown |-> thrown]

\* while (!(next = iterator.next()).done) result.push(next.value);
\* for (const row of it) result.push(row);
RECURSIVE drain(_, _, _, _)

\* one turn of the loop, r being what next() returned
drained(a, E, result, r) ==
  CASE r.kind = "err" -> Drained(result, r.err)
    [] r.kind = "done" -> Drained(result, NoError)
    [] OTHER -> drain(a, E, r.c, push(result, r.row))

drain(a, E, c, result) == drained(a, E, result, iteratorNext(a, E, c))

\* const iterator = this.iterate(...); then the loop, unless iterate threw
loop(a, E, it) ==
  IF it.thrown # NoError THEN Drained(<< >>, it.thrown)
  ELSE drain(a, E, it.cursor, << >>)

\* return result; or catch (err) { throw convertError(err); }
all_caught(d) ==
  IF d.thrown = NoError THEN d ELSE Drained(<< >>, convertError(d.thrown))

\* no try/catch: the error leaves all() as it is
all_uncaught(d) ==
  IF d.thrown = NoError THEN d ELSE Drained(<< >>, d.thrown)

all_sync(E, q) == all_caught(loop("sync", E, iterate_sync(E, q)))

all_promise(E, q) == all_caught(loop("promise", E, iterate_promise(E, q)))

all_legacy(E, q) == all_uncaught(loop("legacy", E, iterate_legacy(E, q)))

all_experimental(E, q) ==
  all_uncaught(loop("experimental", E, iterate_experimental(E, q)))

all(a, E, q) ==
  CASE a = "sync" -> all_sync(E, q)
    [] a = "promise" -> all_promise(E, q)
    [] a = "legacy" -> all_legacy(E, q)
    [] OTHER -> all_experimental(E, q)


(***************************************************************************)
(* Statement.get.  A row is the id it holds; what get() returns is the row *)
(* or undefined.                                                           *)
(***************************************************************************)
Row(id) == [t |-> "row", v |-> id]

Got(value, thrown) == [value |-> value, thrown |-> thrown]

\* a get() that answers with the last row of the result
nativeGet_Last(E, q) ==
  IF ~E.open THEN [value |-> Undefined, err |-> ErrNotOpen]
  ELSE IF nativeRows(E, q) = << >> THEN [value |-> Undefined, err |-> NoError]
  ELSE [value |-> Row(nativeRows(E, q)[Len(nativeRows(E, q))]), err |-> NoError]

\* the engine executes the statement and answers with its first row, or with
\* undefined when there is none
nativeGet(E, q) ==
  IF ~E.open THEN [value |-> Undefined, err |-> ErrNotOpen]
  ELSE IF nativeRows(E, q) = << >> THEN [value |-> Undefined, err |-> NoError]
  ELSE [value |-> Row(Head(nativeRows(E, q))), err |-> NoError]

\* try { return this.stmt.get(...) } catch (err) { throw convertError(err); }
got_caught(r) ==
  Got(r.value, IF r.err = NoError THEN NoError ELSE convertError(r.err))

\* return statementGet.call(this.stmt, ...): no try/catch
got_uncaught(r) == Got(r.value, r.err)

get_sync(E, q) == got_caught(nativeGet(E, q))

get_promise(E, q) == got_caught(nativeGet(E, q))

get_legacy(E, q) == got_uncaught(nativeGet(E, q))

get_experimental(E, q) == got_uncaught(nativeGet(E, q))

get(a, E, q) ==
  CASE a = "sync" -> get_sync(E, q)
    [] a = "promise" -> get_promise(E, q)
    [] a = "legacy" -> get_legacy(E, q)
    [] OTHER -> get_experimental(E, q)


(***************************************************************************)
(* Database.pragma.  sent is the statement text handed to the engine, or   *)
(* << >> when the call ended before anything was handed over.              *)
(***************************************************************************)
\* typeof
typeof(val) == IF val.t = "null" THEN "object" ELSE val.t

\* the text a template literal puts in for a string
TextOf(val) == IF val.v = << >> THEN "" ELSE val.v[1][2]

Column(v) == [t |-> "column", v |-> v]

PragmaOut(E, thrown, kind, value, rows, sent) ==
  [E |-> E, thrown |-> thrown, kind |-> kind, value |-> value, rows |-> rows,
   sent |-> sent]

\* a get() in pluck mode that answers with the last column of the first row
nativeGetPluck_LastColumn(E, q) ==
  IF ~E.open THEN [value |-> Undefined, err |-> ErrNotOpen]
  ELSE IF nativeRows(E, q) = << >> THEN [value |-> Undefined, err |-> NoError]
  ELSE [value |-> Column(Head(nativeRows(E, q))[Len(Head(nativeRows(E, q)))][2]),
        err |-> NoError]

\* get() on a statement in pluck mode: the first column of the first row
nativeGetPluck(E, q) ==
  IF ~E.open THEN [value |-> Undefined, err |-> ErrNotOpen]
  ELSE IF nativeRows(E, q) = << >> THEN [value |-> Undefined, err |-> NoError]
  ELSE [value |-> Column(Head(nativeRows(E, q))[1][2]), err |-> NoError]

\* stmt.pluck().get()
pragma_plucked(E, sql, g) ==
  IF g.thrown # NoError
    THEN PragmaOut(E, g.thrown, "threw", Undefined, << >>, <<sql>>)
  ELSE PragmaOut(nativePragmaApply(E, sql), NoError, "value", g.value, << >>, <<sql>>)

\* stmt.all()
pragma_listed(E, sql, d) ==
  IF d.thrown # NoError
    THEN PragmaOut(E, d.thrown, "threw", Undefined, << >>, <<sql>>)
  ELSE PragmaOut(nativePragmaApply(E, sql), NoError, "rows", Undefined, d.rows, <<sql>>)

\* return simple ? stmt.pluck().get() : stmt.all();
pragma_returned(a, E, sql, simple) ==
  IF Truthy(simple)
    THEN pragma_plucked(E, sql, got_caught(nativeGetPluck(E, [stmt |-> sql, param |-> 0])))
  ELSE pragma_listed(E, sql, all(a, E, [stmt |-> sql, param |-> 0]))

\* const stmt = this.prepare(`PRAGMA ${source}`, this, true), p being how the
\* prepare call ended
pragma_prepared(a, sql, simple, p) ==
  IF p.thrown # NoError
    THEN PragmaOut(p.E, p.thrown, "threw", Undefined, << >>, <<sql>>)
  ELSE pragma_returned(a, p.E, sql, simple)

\* the two typeof checks, options being what `if (options == null) options = {}`
\* left
pragma_checked(a, E, source, options) ==
  IF typeof(source) # "string"
    THEN PragmaOut(E, TypeError(Plain("Expected first argument to be a string")),
                   "threw", Undefined, << >>, << >>)
  ELSE IF typeof(options) # "object"
    THEN PragmaOut(E, TypeError(Plain("Expected second argument to be an options object")),
                   "threw", Undefined, << >>, << >>)
  ELSE pragma_prepared(a, PragmaText(TextOf(source)), Prop(options, "simple"),
                       prepare(a, E, PragmaText(TextOf(source))))

pragma_sync(E, source, options) ==
  pragma_checked("sync", E, source,
                 IF options \in {Undefined, Null} THEN Obj(<< >>) ELSE options)

pragma_promise(E, source, options) ==
  pragma_checked("promise", E, source,
                 IF options \in {Undefined, Null} THEN Obj(<< >>) ELSE options)

\* pragma(source, options) { throw new Error("not implemented"); }
pragma_legacy(E, source, options) ==
  PragmaOut(E, NotImplemented, "threw", Undefined, << >>, << >>)

pragma_experimental(E, source, options) ==
  PragmaOut(E, NotImplemented, "threw", Undefined, << >>, << >>)

pragma(a, E, source, options) ==
  CASE a = "sync" -> pragma_sync(E, source, options)
    [] a = "promise" -> pragma_promise(E, source, options)
    [] a = "legacy" -> pragma_legacy(E, source, options)
    [] OTHER -> pragma_experimental(E, source, options)


(***************************************************************************)
(* Iteration: a connection whose table has been filled and whose statement *)
(* has been prepared; the run iterates that statement with one parameter.  *)
(***************************************************************************)
Filled(n) ==
  [nativeOpen EXCEPT !.table = 1..n, !.committed = 1..n, !.nwrites = n]

InitIter ==
  /\ api \in Apis
  /\ \E n \in 0..MaxWrites : db = Filled(n)
  /\ busy = FALSE
  /\ openProp = constructorOpen(api)
  /\ query \in Queries
  /\ stmts = {query.stmt}
  /\ txn = IdleTxn
  /\ last = NoCall
  /\ cursors = <<>>
  /\ iters = <<>>
  /\ allRes = NoAll
  /\ errIn = NoError
  /\ errOut = NoError
  /\ errSrc = NoSource
  /\ callable = NoCallable
  /\ path = "hello.db"
  /\ memory = constructorMemory(api, path)
  /\ getRes = NoGet
  /\ Rest0

ConnFixed ==
  /\ UNCHANGED <<api, db, busy, openProp, stmts, txn, errIn, errOut, errSrc, query, callable,
                 path, memory>>
  /\ RestFixed

IterFixed == ConnFixed /\ UNCHANGED getRes

Derived == {i \in 1..Len(iters) : iters[i].parent # 0}

\* the caller holds the iterator iterate() returned, or its error
Iterated(r) ==
  IF r.thrown = NoError
  THEN /\ cursors' = Append(cursors,
              [c |-> r.cursor, yielded |-> << >>, via |-> << >>, sawDone |-> FALSE,
               late |-> "none", lateDerived |-> FALSE])
       /\ iters' = Append(iters, [cur |-> Len(cursors) + 1, parent |-> 0])
       /\ last' = Returned("iterate", db.open, "iterator")
  ELSE /\ last' = Threw("iterate", db.open, r.thrown)
       /\ UNCHANGED <<cursors, iters>>

Iterate ==
  /\ Len(cursors) < MaxCursors
  /\ Iterated(iterate(api, db, query))
  /\ UNCHANGED allRes
  /\ IterFixed

\* the caller's record of what next() on iterator i over cursor k returned
Pulled(i, k, r) ==
  /\ cursors' = [cursors EXCEPT ![k] =
         [c |-> r.c,
          yielded |-> IF r.kind = "row" /\ ~cursors[k].sawDone
                      THEN Append(cursors[k].yielded, r.row) ELSE cursors[k].yielded,
          via |-> IF r.kind = "row" /\ ~cursors[k].sawDone
                  THEN Append(cursors[k].via,
                              IF iters[i].parent # 0 THEN "derived" ELSE "object")
                  ELSE cursors[k].via,
          sawDone |-> cursors[k].sawDone \/ r.kind = "done",
          late |-> IF cursors[k].sawDone THEN r.kind ELSE cursors[k].late,
          lateDerived |-> cursors[k].lateDerived
                            \/ (cursors[k].sawDone /\ iters[i].parent # 0)]]
  /\ last' = IF r.kind = "err" THEN Threw("next", db.open, r.err)
             ELSE Returned("next", db.open, r.kind)

IterNext(i) ==
  /\ i \in 1..Len(iters)
  /\ Pulled(i, iters[i].cur, iteratorNext(api, db, cursors[iters[i].cur].c))
  /\ UNCHANGED <<iters, allRes>>
  /\ IterFixed

\* it[Symbol.iterator]() or it[Symbol.asyncIterator]()
GetIterator(i) ==
  /\ i \in 1..Len(iters)
  /\ IF symbolIterator(api)
     THEN /\ iters[i].parent = 0
          /\ Cardinality(Derived) < MaxDerived
          /\ iters' = Append(iters, [cur |-> iters[i].cur, parent |-> i])
          /\ cursors' = [cursors EXCEPT ![iters[i].cur].c = closedOver(@)]
          /\ last' = Returned("Symbol.iterator", db.open, "iterator")
     ELSE /\ last' = Returned("Symbol.iterator", db.open, "this")
          /\ UNCHANGED <<iters, cursors>>
  /\ UNCHANGED allRes
  /\ IterFixed

\* the caller's record of what all() returned
Collected(r) ==
  /\ allRes' = [called |-> TRUE, rows |-> r.rows, err |-> r.thrown]
  /\ last' = Result("all", db.open, r.thrown, "rows")

All ==
  /\ Collected(all(api, db, query))
  /\ UNCHANGED <<cursors, iters>>
  /\ IterFixed

\* the caller's record of what get() returned
Fetched(r) ==
  /\ getRes' = [called |-> TRUE, value |-> r.value, err |-> r.thrown]
  /\ last' = Result("get", db.open, r.thrown, "row")

Get ==
  /\ Fetched(get(api, db, query))
  /\ UNCHANGED <<cursors, iters, allRes>>
  /\ ConnFixed

NextIter ==
  \/ Iterate
  \/ \E i \in 1..(MaxCursors + MaxDerived) : IterNext(i)
  \/ \E i \in 1..(MaxCursors + MaxDerived) : GetIterator(i)
  \/ All
  \/ Close

SpecIter == InitIter /\ [][NextIter]_vars

\* C9: once a next() call on an iterator returned by iterate() has returned
\* done, every later next() call on that iterator, and on any iterator object
\* obtained from it through Symbol.iterator or Symbol.asyncIterator, also
\* returns done and yields no row.
C9_ExhaustionPermanent ==
  \A k \in 1..Len(cursors) :
    /\ cursors[k].late \in {"none", "done"}
    /\ cursors[k].sawDone => Len(cursors[k].yielded) = Len(cursors[k].c.rows)

C9_Witness ==
  \E k \in 1..Len(cursors) :
    /\ cursors[k].late = "done"
    /\ cursors[k].lateDerived
    /\ Len(cursors[k].yielded) >= 1

\* C10: all(params) returns exactly the sequence of values obtained by calling
\* iterate(params) once and pulling next() until the first done: same rows,
\* same order, none dropped, duplicated or added; for a statement with zero
\* result rows it returns an empty array.
C10_AllIsDrainedIterate ==
  (allRes.called /\ allRes.err = NoError) =>
    /\ \A k \in 1..Len(cursors) : cursors[k].sawDone => allRes.rows = cursors[k].yielded
    /\ nativeRows(db, query) = << >> => allRes.rows = << >>

C10_Witness ==
  /\ allRes.called /\ allRes.err = NoError
  /\ Len(allRes.rows) = 2
  /\ \E k \in 1..Len(cursors) : cursors[k].sawDone /\ cursors[k].yielded = allRes.rows


\* C17: in the promise-based API the BEGIN / body / COMMIT-or-ROLLBACK sequence
\* of one invocation is strictly ordered: BEGIN comes first, COMMIT is issued
\* only after the unit of work has completed (after the promise it returns has
\* settled), and a rejection of that promise leads to ROLLBACK instead of
\* COMMIT.
C17_Original ==
  (Done /\ api \in {"promise", "legacy"}) =>
    /\ txn.issued[1].sql[1] = "BEGIN"
    /\ (txn.issued[1].ok /\ txn.fn.kind = "reject") =>
          /\ Count("COMMIT") = 0
          /\ Count("ROLLBACK") = 1
          /\ txn.issued[2].sql = <<"ROLLBACK">>

\* C18: on the synchronous and the promise-based connection, when the unit of
\* work fails with e the wrapper issues one ROLLBACK and raises exactly one
\* error: e itself when that ROLLBACK succeeded, and the error r the ROLLBACK
\* failed with when it failed; it builds no error of its own.
C18_RollbackFailureSurfaces ==
  (Done /\ api \in CompleteApis /\ Raised) =>
    /\ Len(txn.issued) = 2
    /\ txn.issued[2].sql = <<"ROLLBACK">>
    /\ txn.out = "raised"
    /\ txn.value = NoValue
    /\ txn.err = IF txn.issued[2].ok THEN txn.fn.err ELSE txn.issued[2].err
    /\ txn.err # NoError

C18_Witness ==
  /\ Done /\ api \in CompleteApis /\ Raised
  /\ txn.fn.err \in UserErrors
  /\ ~txn.issued[2].ok
  /\ txn.err = txn.issued[2].err
  /\ txn.err # txn.fn.err

(***************************************************************************)
(* Single-row fetch next to full-result fetch on the same statement.       *)
(***************************************************************************)
NextGet ==
  \/ Get
  \/ All
  \/ Close

SpecGet == InitIter /\ [][NextGet]_vars

C12_Original == memory = (path = ":memory:")

\* C13: on an open connection, reading inTransaction returns true exactly when
\* the engine has an open transaction on that connection, inside a unit of work
\* of the transaction wrapper included.
C13_Original == db.open => (inTransaction(api, db) <=> db.inTxn)


(***************************************************************************)
(* Connection attributes and the authorization gate: a connection opened   *)
(* against any target, and one statement text that is prepared under       *)
(* changing rules.                                                         *)
(***************************************************************************)
AuthSql == {"SELECT_ALL", "SELECT_JOIN", "SELECT_ONE"}

InitConn ==
  /\ api \in Apis
  /\ db = nativeOpen
  /\ busy = FALSE
  /\ openProp = constructorOpen(api)
  /\ stmts = {}
  /\ txn = IdleTxn
  /\ last = NoCall
  /\ cursors = <<>>
  /\ iters = <<>>
  /\ allRes = NoAll
  /\ errIn = NoError
  /\ errOut = NoError
  /\ errSrc = NoSource
  /\ \E sql \in AuthSql : query = [stmt |-> sql, param |-> 0]
  /\ callable = NoCallable
  /\ path \in Paths
  /\ memory = constructorMemory(api, path)
  /\ getRes = NoGet
  /\ Rest0

NextConn ==
  \/ \E rules \in RuleSets : Authorizer(rules)
  \/ Prepare(query.stmt)
  \/ Close

SpecConn == InitConn /\ [][NextConn]_vars

\* C14: on an open connection on which authorizer(rules) has been called,
\* prepare(sql) raises a SqliteError whose code is SQLITE_AUTH and returns no
\* Statement whenever sql refers to a table that rules maps to DENY or does not
\* hold, and returns a Statement when every table it refers to is mapped to ALLOW.
C14_DenyByDefault ==
  (last.op = "prepare" /\ last.wasOpen /\ db.auth.installed) =>
    IF \E t \in TablesOf(query.stmt) : <<t, ALLOW>> \notin db.auth.rules
    THEN /\ last.threw
         /\ last.err.cls = "SqliteError"
         /\ last.err.code = Plain("SQLITE_AUTH")
         /\ last.ret = "none"
    ELSE /\ ~last.threw
         /\ last.ret = "statement"
         /\ query.stmt \in stmts

C14_Witness ==
  /\ last.op = "prepare" /\ last.wasOpen /\ db.auth.installed
  /\ query.stmt = "SELECT_JOIN"
  /\ <<"users", ALLOW>> \in db.auth.rules
  /\ \A x \in db.auth.rules : x[1] # "orders"
  /\ last.threw /\ last.err.code = Plain("SQLITE_AUTH")
  /\ "SELECT_JOIN" \in stmts


(***************************************************************************)
(* pragma() on a connection, called with every kind of argument.           *)
(***************************************************************************)
SimpleTrue == Obj(<< <<"s", "simple">>, <<"k", "true">> >>)
SimpleFalse == Obj(<< <<"s", "simple">>, <<"k", "false">> >>)

\* what a caller passes as source: a pragma the engine accepts, one it rejects,
\* a number, nothing
PragmaArgs == {Plain(s) : s \in PragmaSources} \cup {Plain("= 1"), Num("1"), Undefined}

\* what a caller passes as options
PragmaOptions == {Undefined, Null, Obj(<< >>), SimpleTrue, SimpleFalse, Plain("simple")}

PragmaCalled(source, options, r) ==
  /\ db' = r.E
  /\ last' = Result("pragma", db.open, r.thrown, r.kind)
  /\ pragmaRes' = [called |-> TRUE, source |-> source, options |-> options,
                   kind |-> r.kind, value |-> r.value, rows |-> r.rows,
                   err |-> r.thrown, sent |-> r.sent]

Pragma(source, options) ==
  /\ txn.pc # "fn"
  /\ PragmaCalled(source, options, pragma(api, db, source, options))
  /\ txn' = IdleTxn
  /\ UNCHANGED <<api, busy, openProp, stmts, cursors, iters, allRes, errIn, errOut,
                 errSrc, query, callable, path, memory, getRes, ints, intr, conc>>
  /\ MoreFixed

NextPragma ==
  \/ \E source \in PragmaArgs, options \in PragmaOptions : Pragma(source, options)
  \/ Close

SpecPragma == Init /\ [][NextPragma]_vars

\* C19: pragma(source, options) prepares and executes 'PRAGMA <source>' and
\* returns, when options.simple is true, only the first column of the first row
\* (undefined when there is no row), and otherwise the full list of rows as
\* all() returns them; a non-string source or a non-object options raises a
\* TypeError before anything is sent to the engine.  (Stated for an open
\* connection; the result is looked at for the sources the engine accepts.)
C19_Original ==
  (pragmaRes.called /\ last.op = "pragma" /\ last.wasOpen) =>
    IF \/ typeof(pragmaRes.source) # "string"
       \/ pragmaRes.options.t \notin {"undefined", "null", "object"}
    THEN /\ pragmaRes.kind = "threw"
         /\ pragmaRes.err.cls = "TypeError"
         /\ pragmaRes.sent = << >>
    ELSE /\ pragmaRes.sent = << PragmaText(TextOf(pragmaRes.source)) >>
         /\ pragmaRes.sent[1] \in PragmaSql =>
              IF Prop(pragmaRes.options, "simple") = Bool("true")
              THEN /\ pragmaRes.kind = "value"
                   /\ pragmaRes.value =
                        IF nativePragmaRows(db, pragmaRes.sent[1]) = << >> THEN Undefined
                        ELSE Column(nativePragmaRows(db, pragmaRes.sent[1])[1][1][2])
              ELSE /\ pragmaRes.kind = "rows"
                   /\ pragmaRes.rows = nativePragmaRows(db, pragmaRes.sent[1])


(***************************************************************************)
(* Interrupt (promise-based connection).  all() is called on a query that  *)
(* never reports the end; the caller keeps the promise and calls           *)
(* db.interrupt() or stmt.interrupt().  intr.pc is where the all() call    *)
(* stands:                                                                 *)
(*   "iterate"  the native iterate call is outstanding                     *)
(*   "loop"     a row has arrived, the loop is about to call next()        *)
(*   "next"     a native next call is outstanding                          *)
(*   "thrown"   the native iterate call was rejected; the catch block of   *)
(*              iterate() is about to run                                  *)
(*   "caught"   iterate() or next() has thrown into the try block of all() *)
(* intr.exec is the engine's side of the execution: "queued" from the call *)
(* until the engine starts on it, then "running".                          *)
(***************************************************************************)
\* rows of the endless result the model tells apart
MaxPulled == 4
\* all() calls the caller makes one after the other
MaxAlls == 2

\* an interrupt that reaches only an execution the engine has started on
nativeInterrupt_RunningOnly(x) ==
  IF x.exec = "running" THEN [x EXCEPT !.abort = TRUE] ELSE x

\* the engine marks the execution in flight, if there is one, to be aborted
nativeInterrupt(x) ==
  IF x.exec # "none" THEN [x EXCEPT !.abort = TRUE] ELSE x

\* interrupt() { this.db.interrupt(); }
interrupt_db(x) == nativeInterrupt(x)

\* interrupt() { this.stmt.interrupt(); return this; }
interrupt_stmt(x) == nativeInterrupt(x)

\* iterate(): catch (err) { throw convertError(err); }
iterate_rejected(err) == convertError(err)

\* all(): catch (err) { throw convertError(err); }; next() has no catch of
\* its own
all_rejected(err) == convertError(err)

InitIntr ==
  /\ api = "promise"
  /\ db = nativeOpen
  /\ busy = FALSE
  /\ openProp = constructorOpen(api)
  /\ stmts = {"ENDLESS"}
  /\ txn = IdleTxn
  /\ last = NoCall
  /\ cursors = <<>>
  /\ iters = <<>>
  /\ allRes = NoAll
  /\ errIn = NoError
  /\ errOut = NoError
  /\ errSrc = NoSource
  /\ query = [stmt |-> "ENDLESS", param |-> 0]
  /\ callable = NoCallable
  /\ path = "hello.db"
  /\ memory = constructorMemory(api, path)
  /\ getRes = NoGet
  /\ pragmaRes = NoPragma
  /\ More0
  /\ ints = NoInts
  /\ intr = NoIntr
  /\ conc = NoConc

IntrFixed ==
  UNCHANGED <<api, db, busy, openProp, stmts, txn, last, cursors, iters, allRes,
              errIn, errOut, errSrc, query, callable, path, memory, getRes,
              pragmaRes, ints, conc>>
  /\ MoreFixed

\* const fut = stmt.all(): runs up to the first await, the native iterate call
\* has been made when all() returns its promise
AllCall ==
  /\ intr.pc \in {"idle", "settled"}
  /\ intr.calls < MaxAlls
  /\ intr' = [NoIntr EXCEPT !.pc = "iterate", !.exec = "queued", !.fut = "pending",
                            !.abort = intr.abort, !.calls = intr.calls + 1]
  /\ IntrFixed

\* db.interrupt() or stmt.interrupt(), at any moment
Interrupt(by) ==
  /\ intr.fut # "pending" => ~intr.asked
  /\ intr' = [(IF by = "db" THEN interrupt_db(intr) ELSE interrupt_stmt(intr))
                 EXCEPT !.asked = @ \/ intr.fut = "pending",
                        !.by = IF intr.fut = "pending" /\ ~intr.asked THEN by ELSE @]
  /\ IntrFixed

\* the engine starts on the execution
EngStart ==
  /\ intr.exec = "queued"
  /\ intr' = [intr EXCEPT !.exec = "running"]
  /\ IntrFixed

\* the native iterate call resolves; the loop of all() is entered
EngIterate ==
  /\ intr.pc = "iterate" /\ intr.exec = "running" /\ ~intr.abort
  /\ intr' = [intr EXCEPT !.pc = "loop"]
  /\ IntrFixed

\* next = await iterator.next()
JsNext ==
  /\ intr.pc = "loop"
  /\ intr' = [intr EXCEPT !.pc = "next"]
  /\ IntrFixed

\* the engine delivers one more row; result.push(next.value)
EngRow ==
  /\ intr.pc = "next" /\ intr.exec = "running" /\ ~intr.abort
  /\ intr' = [intr EXCEPT !.pc = "loop",
                          !.rows = IF @ < MaxPulled THEN @ + 1 ELSE @]
  /\ IntrFixed

\* the engine aborts the execution: the outstanding call is rejected
EngAbort ==
  /\ intr.pc \in {"iterate", "next"} /\ intr.exec # "none" /\ intr.abort
  /\ intr' = [intr EXCEPT !.pc = IF intr.pc = "iterate" THEN "thrown" ELSE "caught",
                          !.exec = "none", !.abort = FALSE, !.err = ErrInterrupt]
  /\ IntrFixed

\* the catch block of iterate() runs and throws into all()
JsRethrow ==
  /\ intr.pc = "thrown"
  /\ intr' = [intr EXCEPT !.pc = "caught", !.err = iterate_rejected(@)]
  /\ IntrFixed

\* the catch block of all() runs: its promise is rejected
JsReject ==
  /\ intr.pc = "caught"
  /\ intr' = [intr EXCEPT !.pc = "settled", !.fut = "rejected",
                          !.err = all_rejected(@)]
  /\ IntrFixed

NextIntr ==
  \/ AllCall
  \/ \E by \in {"db", "stmt"} : Interrupt(by)
  \/ EngStart
  \/ EngIterate
  \/ JsNext
  \/ EngRow
  \/ EngAbort
  \/ JsRethrow
  \/ JsReject

\* the engine and the event loop both keep going
SpecIntr ==
  /\ InitIntr /\ [][NextIntr]_vars
  /\ WF_vars(EngStart) /\ WF_vars(EngIterate) /\ WF_vars(EngRow) /\ WF_vars(EngAbort)
  /\ WF_vars(JsNext) /\ WF_vars(JsRethrow) /\ WF_vars(JsReject)

Interrupted ==
  /\ intr.fut = "rejected"
  /\ intr.err = SqliteError(Plain("interrupted"), Plain("SQLITE_INTERRUPT"), Num("9"))

\* C15: in the promise-based API, once db.interrupt() or stmt.interrupt() has
\* been called while the promise of all() on a query that never ends is
\* pending, that promise is eventually rejected with a SqliteError with message
\* "interrupted" and code SQLITE_INTERRUPT, whether or not the engine had
\* started on the statement; it never resolves with rows.
C15_InterruptRejects ==
  /\ [](intr.fut # "resolved")
  /\ (intr.asked ~> Interrupted)

C15_Witness ==
  /\ Interrupted
  /\ intr.asked
  /\ intr.rows = 0


(***************************************************************************)
(* Calls in flight on one promise-based connection: run() is called        *)
(* several times on one prepared INSERT without awaiting.  A call is       *)
(*   "queued"   issued to the engine by run()                              *)
(*   "running"  taken up by the engine, which has read the table           *)
(*   "done"     finished by the engine, the await in run() not yet resumed *)
(*   "resolved" / "rejected"  the promise run() returned has settled       *)
(***************************************************************************)
\* run() calls issued without awaiting
MaxCalls == 3

\* an engine that takes up a call while it is at work on another
nativeMayTake_Unserialized(calls) == TRUE

\* the engine works on one call of a connection at a time
nativeMayTake(calls) == \A j \in 1..Len(calls) : calls[j].st # "running"

\* the write of a call that read the table when the engine took it up
nativeWrite(E, b, snap) == nativeRun([E EXCEPT !.nwrites = snap], b)

\* try { return await this.stmt.run(...) } catch (err) { throw convertError(err); }
run_settled(r) == IF caught_promise(r).thrown = NoError THEN "resolved" ELSE "rejected"

InitConc ==
  /\ api = "promise"
  /\ \E n \in 0..MaxWrites : db = Filled(n) /\ conc = [NoConc EXCEPT !.base = n]
  /\ busy = FALSE
  /\ openProp = constructorOpen(api)
  /\ stmts = {"INSERT"}
  /\ txn = IdleTxn
  /\ last = NoCall
  /\ cursors = <<>>
  /\ iters = <<>>
  /\ allRes = NoAll
  /\ errIn = NoError
  /\ errOut = NoError
  /\ errSrc = NoSource
  /\ query = NoQuery
  /\ callable = NoCallable
  /\ path = "hello.db"
  /\ memory = constructorMemory(api, path)
  /\ getRes = NoGet
  /\ pragmaRes = NoPragma
  /\ More0
  /\ ints = NoInts
  /\ intr = NoIntr

ConcFixed ==
  UNCHANGED <<api, busy, openProp, stmts, txn, last, cursors, iters, allRes,
              errIn, errOut, errSrc, query, callable, path, memory, getRes,
              pragmaRes, ints, intr>>
  /\ MoreFixed

\* promises.push(stmt.run(...)): the native call is made before run() returns
RunCall ==
  /\ Len(conc.calls) < MaxCalls
  /\ conc' = [conc EXCEPT !.calls = Append(@, [st |-> "queued", snap |-> 0, r |-> Ok(db)])]
  /\ UNCHANGED db
  /\ ConcFixed

EngTake(i) ==
  /\ i \in 1..Len(conc.calls)
  /\ conc.calls[i].st = "queued"
  /\ nativeMayTake(conc.calls)
  /\ conc' = [conc EXCEPT !.calls[i].st = "running", !.calls[i].snap = db.nwrites]
  /\ UNCHANGED db
  /\ ConcFixed

\* the engine's answer r to call i
Answered(i, r) ==
  /\ db' = r.E
  /\ conc' = [conc EXCEPT !.calls[i].st = "done", !.calls[i].r = r]

EngApply(i) ==
  /\ i \in 1..Len(conc.calls)
  /\ conc.calls[i].st = "running"
  /\ Answered(i, nativeWrite(db, busy, conc.calls[i].snap))
  /\ ConcFixed

\* the await in run() resumes
JsSettle(i) ==
  /\ i \in 1..Len(conc.calls)
  /\ conc.calls[i].st = "done"
  /\ conc' = [conc EXCEPT !.calls[i].st = run_settled(conc.calls[i].r)]
  /\ UNCHANGED db
  /\ ConcFixed

NextConc ==
  \/ RunCall
  \/ \E i \in 1..MaxCalls : EngTake(i)
  \/ \E i \in 1..MaxCalls : EngApply(i)
  \/ \E i \in 1..MaxCalls : JsSettle(i)

SpecConc ==
  /\ InitConc /\ [][NextConc]_vars
  /\ \A i \in 1..MaxCalls :
        WF_vars(EngTake(i)) /\ WF_vars(EngApply(i)) /\ WF_vars(JsSettle(i))

AllSettled ==
  \A i \in 1..Len(conc.calls) : conc.calls[i].st \in {"resolved", "rejected"}

\* C16: when N run() calls on one prepared INSERT are issued on the same
\* promise-based connection without awaiting one another, every promise
\* resolves and none is rejected, and once all have settled the table holds
\* exactly N more rows than before.
C16_NoLostWrite ==
  /\ [](\A i \in 1..Len(conc.calls) : conc.calls[i].st # "rejected")
  /\ [](AllSettled => Cardinality(db.table) = conc.base + Len(conc.calls))
  /\ \A i \in 1..MaxCalls :
        (Len(conc.calls) >= i) ~> (Len(conc.calls) >= i /\ conc.calls[i].st = "resolved")

C16_Witness ==
  /\ Len(conc.calls) = 3
  /\ AllSettled
  /\ Cardinality(db.table) = conc.base + 3
  /\ conc.base = 1

(***************************************************************************)
(* Safe integers.  ints.eng is the engine's side: the connection's default *)
(* and the statement's own flag ("unset" until one is set on it).          *)
(* ints.askDb and ints.askStmt are the toggles the caller passed in the    *)
(* calls that returned; ints.ran says that the statement has been executed *)
(* since the last of them, ints.mode and ints.out what that execution used *)
(* and returned for the integer column, which holds ints.stored.  The      *)
(* caller sets the connection's default before it prepares the statement.  *)
(***************************************************************************)
\* the integers the column holds, as decimal text
StoredInts == {"1", "2", "9007199254740993"}

\* the double nearest to an integer
toNumber(text) == IF text = "9007199254740993" THEN "9007199254740992" ELSE text

NumberOf(text) == [t |-> "number", v |-> toNumber(text)]

BigIntOf(text) == [t |-> "bigint", v |-> text]

\* what a caller passes as toggle
Toggles == {Undefined, Bool("true"), Bool("false")}

\* the engine's reading of a toggle: a missing one enables
nativeToggle(toggle) == IF toggle = Undefined THEN TRUE ELSE Truthy(toggle)

nativeDefaultSafeIntegers(S, toggle) == [S EXCEPT !.default = nativeToggle(toggle)]

nativeSafeIntegers(S, toggle) ==
  [S EXCEPT !.flag = IF nativeToggle(toggle) THEN "on" ELSE "off"]

\* a mode that leaves the statement's own flag out
nativeMode_DefaultOnly(S) == S.default

\* the decoding mode of an execution
nativeMode(S) == IF S.flag # "unset" THEN S.flag = "on" ELSE S.default

\* an integer column as the engine hands it over
nativeColumn(S, text) == IF nativeMode(S) THEN BigIntOf(text) ELSE NumberOf(text)

IntsCall(S, thrown) == [S |-> S, thrown |-> thrown]

\* this.db.defaultSafeIntegers(toggle); return this;
defaultSafeIntegers_sync(S, toggle) ==
  IntsCall(nativeDefaultSafeIntegers(S, toggle), NoError)

defaultSafeIntegers_promise(S, toggle) ==
  IntsCall(nativeDefaultSafeIntegers(S, toggle), NoError)

\* toggle ?? true
orTrue(toggle) == IF toggle \in {Undefined, Null} THEN Bool("true") ELSE toggle

\* databaseDefaultSafeIntegers.call(this.db, toggle ?? true); return this;
defaultSafeIntegers_legacy(S, toggle) ==
  IntsCall(nativeDefaultSafeIntegers(S, orTrue(toggle)), NoError)

\* defaultSafeIntegers(...args) { throw new Error("not implemented") }
defaultSafeIntegers_experimental(S, toggle) == IntsCall(S, NotImplemented)

defaultSafeIntegers(a, S, toggle) ==
  CASE a = "sync" -> defaultSafeIntegers_sync(S, toggle)
    [] a = "promise" -> defaultSafeIntegers_promise(S, toggle)
    [] a = "legacy" -> defaultSafeIntegers_legacy(S, toggle)
    [] OTHER -> defaultSafeIntegers_experimental(S, toggle)

\* this.stmt.safeIntegers(toggle); return this;
safeIntegers_sync(S, toggle) == IntsCall(nativeSafeIntegers(S, toggle), NoError)

safeIntegers_promise(S, toggle) == IntsCall(nativeSafeIntegers(S, toggle), NoError)

\* statementSafeIntegers.call(this.stmt, toggle ?? true); return this;
safeIntegers_legacy(S, toggle) ==
  IntsCall(nativeSafeIntegers(S, orTrue(toggle)), NoError)

\* the experimental Statement has no safeIntegers method
safeIntegers_missing(S, toggle) == IntsCall(S, NotAFunction)

safeIntegers(a, S, toggle) ==
  CASE a = "sync" -> safeIntegers_sync(S, toggle)
    [] a = "promise" -> safeIntegers_promise(S, toggle)
    [] a = "legacy" -> safeIntegers_legacy(S, toggle)
    [] OTHER -> safeIntegers_missing(S, toggle)

InitInts ==
  /\ api \in Apis
  /\ db = nativeOpen
  /\ busy = FALSE
  /\ openProp = constructorOpen(api)
  /\ stmts = {}
  /\ txn = IdleTxn
  /\ last = NoCall
  /\ cursors = <<>>
  /\ iters = <<>>
  /\ allRes = NoAll
  /\ errIn = NoError
  /\ errOut = NoError
  /\ errSrc = NoSource
  /\ query = [stmt |-> "SELECT_BY_ID", param |-> 1]
  /\ callable = NoCallable
  /\ path = "hello.db"
  /\ memory = constructorMemory(api, path)
  /\ getRes = NoGet
  /\ pragmaRes = NoPragma
  /\ More0
  /\ \E text \in StoredInts : ints = [NoInts EXCEPT !.stored = text]
  /\ intr = NoIntr
  /\ conc = NoConc

IntsFixed ==
  UNCHANGED <<api, db, busy, openProp, txn, cursors, iters, allRes, errIn, errOut,
              errSrc, query, callable, path, memory, getRes, pragmaRes, intr, conc>>
  /\ MoreFixed

\* what a toggling call that ended as r leaves: the engine's state, and the
\* toggle when the call returned
Toggled(op, toggle, r, ask) ==
  /\ last' = Result(op, db.open, r.thrown, "this")
  /\ ints' = [ints EXCEPT !.eng = r.S,
                          ![ask] = IF r.thrown = NoError
                                     THEN [set |-> TRUE, toggle |-> toggle] ELSE @,
                          !.ran = FALSE]

DefaultSafeIntegers(toggle) ==
  /\ ~ints.prepared
  /\ Toggled("defaultSafeIntegers", toggle, defaultSafeIntegers(api, ints.eng, toggle),
             "askDb")
  /\ UNCHANGED stmts
  /\ IntsFixed

\* db.prepare(sql): a new statement, with no flag of its own
IntsPrepared(r) ==
  /\ last' = Result("prepare", db.open, r.thrown, "statement")
  /\ stmts' = IF r.thrown = NoError THEN stmts \cup {query.stmt} ELSE stmts
  /\ ints' = [ints EXCEPT !.prepared = (r.thrown = NoError)]

IntsPrepare ==
  /\ ~ints.prepared
  /\ IntsPrepared(prepare(api, db, query.stmt))
  /\ IntsFixed

SafeIntegers(toggle) ==
  /\ ints.prepared
  /\ Toggled("safeIntegers", toggle, safeIntegers(api, ints.eng, toggle), "askStmt")
  /\ UNCHANGED stmts
  /\ IntsFixed

\* stmt.get(): the integer column of the row it returns
IntsGet ==
  /\ ints.prepared
  /\ ~ints.ran
  /\ last' = Returned("get", db.open, "row")
  /\ ints' = [ints EXCEPT !.ran = TRUE, !.mode = nativeMode(ints.eng),
                          !.out = nativeColumn(ints.eng, ints.stored)]
  /\ UNCHANGED stmts
  /\ IntsFixed

NextInts ==
  \/ \E toggle \in Toggles : DefaultSafeIntegers(toggle)
  \/ IntsPrepare
  \/ \E toggle \in Toggles : SafeIntegers(toggle)
  \/ IntsGet

SpecInts == InitInts /\ [][NextInts]_vars

\* the setting a toggle stands for: a call without one enables
SettingOf(ask) == ask.toggle # Bool("false")

RawOnlyMessage == Plain("The raw() method is only for statements that return data")

\* the error the engine raises for raw() on a statement without result columns
ErrRawOnly == MkError("Error", RawOnlyMessage, Undefined, Undefined, 1)

ModeSql == {"SELECT_ALL", "INSERT"}

\* does the compiled statement produce columns
nativeReturnsData(sql) == sql # "INSERT"

ModeCall(obj, thrown) == [obj |-> obj, thrown |-> thrown]

\* a raw() that sets the flag whatever the statement is
nativeRaw_Unchecked(obj, sql, toggle) ==
  ModeCall([obj EXCEPT !.raw = nativeToggle(toggle)], NoError)

nativeRaw(obj, sql, toggle) ==
  IF ~nativeReturnsData(sql) THEN ModeCall(obj, ErrRawOnly)
  ELSE ModeCall([obj EXCEPT !.raw = nativeToggle(toggle)], NoError)

nativePluck(obj, toggle) == ModeCall([obj EXCEPT !.pluck = nativeToggle(toggle)], NoError)

\* this.stmt.raw(raw); return this;
raw_sync(obj, sql, toggle) == nativeRaw(obj, sql, toggle)

raw_promise(obj, sql, toggle) == nativeRaw(obj, sql, toggle)

\* statementRaw.call(this.stmt, raw ?? true); return this;
raw_legacy(obj, sql, toggle) == nativeRaw(obj, sql, orTrue(toggle))

\* this.raw = raw; return this;  the assignment puts an own property in front
\* of the method, so the next stmt.raw(...) calls that value
raw_experimental(obj, sql, toggle) ==
  IF obj.shadowed THEN ModeCall(obj, NotAFunction)
  ELSE ModeCall([obj EXCEPT !.shadowed = TRUE, !.value = toggle], NoError)

raw(a, obj, sql, toggle) ==
  CASE a = "sync" -> raw_sync(obj, sql, toggle)
    [] a = "promise" -> raw_promise(obj, sql, toggle)
    [] a = "legacy" -> raw_legacy(obj, sql, toggle)
    [] OTHER -> raw_experimental(obj, sql, toggle)

\* this.stmt.pluck(pluckMode); return this;
pluck_sync(obj, toggle) == nativePluck(obj, toggle)

pluck_promise(obj, toggle) == nativePluck(obj, toggle)

\* the two older bindings have no pluck method
pluck_missing(obj, toggle) == ModeCall(obj, NotAFunction)

pluck(a, obj, toggle) ==
  CASE a = "sync" -> pluck_sync(obj, toggle)
    [] a = "promise" -> pluck_promise(obj, toggle)
    [] OTHER -> pluck_missing(obj, toggle)

\* safeIntegers() and defaultSafeIntegers() on the same object, r being how the
\* call ended
mode_ints(obj, r) == ModeCall([obj EXCEPT !.S = r.S], r.thrown)

InitModes ==
  /\ api \in Apis
  /\ db = nativeOpen
  /\ busy = FALSE
  /\ openProp = constructorOpen(api)
  /\ \E sql \in ModeSql :
       /\ stmts = {sql}
       /\ modes = [NoModes EXCEPT !.stmt = sql]
  /\ txn = IdleTxn
  /\ last = NoCall
  /\ cursors = <<>>
  /\ iters = <<>>
  /\ allRes = NoAll
  /\ errIn = NoError
  /\ errOut = NoError
  /\ errSrc = NoSource
  /\ query = NoQuery
  /\ callable = NoCallable
  /\ path = "hello.db"
  /\ memory = constructorMemory(api, path)
  /\ getRes = NoGet
  /\ pragmaRes = NoPragma
  /\ ints = NoInts
  /\ intr = NoIntr
  /\ conc = NoConc
  /\ binds = NoBinds
  /\ syncRes = NoSync
  /\ ovl = NoOvl

ModesFixed ==
  UNCHANGED <<api, db, busy, openProp, stmts, txn, cursors, iters, allRes, errIn,
              errOut, errSrc, query, callable, path, memory, getRes, pragmaRes,
              ints, intr, conc, binds, syncRes, ovl>>

\* what a toggling call that ended as r leaves
ModeToggled(op, toggle, r) ==
  /\ last' = Result(op, db.open, r.thrown, "this")
  /\ modes' = [modes EXCEPT !.obj = r.obj, !.pre = modes.obj, !.toggle = toggle,
                            !.asked[op] = [set |-> TRUE, toggle |-> toggle]]
  /\ ModesFixed

ModeRaw(toggle) ==
  /\ modes.stmt \in stmts
  /\ ModeToggled("raw", toggle, raw(api, modes.obj, modes.stmt, toggle))

ModePluck(toggle) ==
  /\ modes.stmt \in stmts
  /\ ModeToggled("pluck", toggle, pluck(api, modes.obj, toggle))

ModeSafeIntegers(toggle) ==
  /\ modes.stmt \in stmts
  /\ ModeToggled("safeIntegers", toggle,
                 mode_ints(modes.obj, safeIntegers(api, modes.obj.S, toggle)))

ModeDefaultSafeIntegers(toggle) ==
  /\ db.open
  /\ ModeToggled("defaultSafeIntegers", toggle,
                 mode_ints(modes.obj, defaultSafeIntegers(api, modes.obj.S, toggle)))

NextModes ==
  \/ \E toggle \in Toggles : ModeRaw(toggle)
  \/ \E toggle \in Toggles : ModePluck(toggle)
  \/ \E toggle \in Toggles : ModeSafeIntegers(toggle)
  \/ \E toggle \in Toggles : ModeDefaultSafeIntegers(toggle)

SpecModes == InitModes /\ [][NextModes]_vars

ModeOps == {"raw", "pluck", "safeIntegers", "defaultSafeIntegers"}

\* the mode in effect, as the engine holds it
InEffect(op) ==
  CASE op = "raw" -> modes.obj.raw
    [] op = "pluck" -> modes.obj.pluck
    [] op = "safeIntegers" -> modes.obj.S.flag = "on"
    [] OTHER -> modes.obj.S.default

\* C21: raw(), pluck(), safeIntegers() and defaultSafeIntegers() may be called
\* any number of times on the same object: each call returns the object it was
\* called on, a call with no argument enables the mode, a call with false
\* disables it, and after any sequence of calls the mode in effect is the one
\* set by the most recent call.  (Stated for a statement that returns data.)
C21_Original ==
  nativeReturnsData(modes.stmt) =>
    /\ last.op \in ModeOps => (~last.threw /\ last.ret = "this")
    /\ \A op \in ModeOps :
         modes.asked[op].set => (InEffect(op) = SettingOf(modes.asked[op]))

\* C22: raw() on a statement that produces no result columns raises an error
\* with the message 'The raw() method is only for statements that return data'
\* and leaves the statement's raw mode and every other attribute of the
\* statement unchanged.
C22_Original ==
  (last.op = "raw" /\ ~nativeReturnsData(modes.stmt)) =>
    /\ last.threw
    /\ last.err.message = RawOnlyMessage
    /\ modes.obj = modes.pre

(***************************************************************************)
(* Bind parameters.  A bindable value is written as the name of its type;  *)
(* an argument of a call is a bindable value, an array of values, or a     *)
(* named-parameter mapping.  The statement is SELECT ?, ? and the row it   *)
(* returns is what its two parameters were bound to ("null" for one left   *)
(* unbound, "mapped" for one bound from a mapping).                        *)
(***************************************************************************)
BindVals == {"number", "bigint", "text", "boolean", "blob", "null"}

Value(v) == [k |-> "value", items |-> <<v>>]

Array(items) == [k |-> "array", items |-> items]

Mapping == [k |-> "mapping", items |-> << >>]

Arrays == {<< >>, <<"number">>, <<"blob">>, <<"number", "text">>, <<"null", "blob">>}

BindArgs == {Value(v) : v \in BindVals} \cup {Array(a) : a \in Arrays} \cup {Mapping}

\* arguments of one call
MaxArgs == 2

\* parameters of the statement
NParams == MaxArgs

ArgLists == UNION {[1..n -> BindArgs] : n \in 0..MaxArgs}

\* typeof x === "object": arrays, mappings, buffers and null
isObject(arg) == arg.k # "value" \/ arg.items[1] \in {"blob", "null"}

\* bindParameters.flat(): arrays are spliced in, anything else is an element
RECURSIVE flat(_)
flat(args) ==
  IF args = << >> THEN << >>
  ELSE (CASE args[1].k = "array" -> args[1].items
          [] args[1].k = "mapping" -> <<"mapping">>
          [] OTHER -> args[1].items) \o flat(Tail(args))

\* what a binding hands to the engine: the arguments as they are ("spread"),
\* or one value in the place of the parameter collection ("one")
Handed(form, args) == [form |-> form, args |-> args]

\* this.stmt.run(...bindParameters)
handed_sync(args) == Handed("spread", args)

handed_promise(args) == Handed("spread", args)

\* if (bindParameters.length == 1 && typeof bindParameters[0] === "object")
\*   statementRun.call(this.stmt, bindParameters[0])
\* else statementRun.call(this.stmt, bindParameters.flat())
handed_legacy(args) ==
  IF Len(args) = 1 /\ isObject(args[1]) THEN Handed("one", <<args[1]>>)
  ELSE Handed("one", <<Array(flat(args))>>)

\* statementGet.call(this.stmt, ...bindParameters)
handed_experimental(args) == Handed("spread", args)

handed(a, args) ==
  CASE a = "sync" -> handed_sync(args)
    [] a = "promise" -> handed_promise(args)
    [] a = "legacy" -> handed_legacy(args)
    [] OTHER -> handed_experimental(args)

BindMessage == Plain("SQLite3 can only bind numbers, strings, bigints, buffers, and null")

ErrBind == MkError("Error", BindMessage, Undefined, Undefined, 1)

ErrMixed == MkError("Error", Plain("mixed parameters"), Undefined, Undefined, 1)

ErrTooMany == MkError("Error", Plain("too many parameters"), Undefined, Undefined, 1)

Resolved(kind, pos, err) == [kind |-> kind, pos |-> pos, err |-> err]

\* an ordered sequence of values as positional parameters
nativePositional(items) ==
  IF \E i \in 1..Len(items) : items[i] \notin BindVals
    THEN Resolved("error", << >>, ErrBind)
  ELSE IF Len(items) > NParams THEN Resolved("error", << >>, ErrTooMany)
  ELSE Resolved("positional", items, NoError)

\* one value in the place of the parameter collection: an array is positional,
\* a mapping is named, and any other object is read as a mapping that names no
\* parameter
nativeResolveOne(arg) ==
  CASE arg.k = "array" -> nativePositional(arg.items)
    [] arg.k = "mapping" -> Resolved("named", << >>, NoError)
    [] OTHER -> Resolved("unbound", << >>, NoError)

\* a resolution that takes the mapping and drops what comes with it
nativeResolveSpread_MappingWins(args) ==
  IF args = << >> THEN Resolved("positional", << >>, NoError)
  ELSE IF \E i \in 1..Len(args) : args[i].k = "mapping"
    THEN Resolved("named", << >>, NoError)
  ELSE IF Len(args) = 1 /\ args[1].k = "array" THEN nativePositional(args[1].items)
  ELSE IF \A i \in 1..Len(args) : args[i].k = "value" THEN nativePositional(flat(args))
  ELSE Resolved("error", << >>, ErrMixed)

\* the arguments of a call, resolved once at call entry: positional values, or
\* a single array, or a single mapping; anything else is rejected
nativeResolveSpread(args) ==
  IF args = << >> THEN Resolved("positional", << >>, NoError)
  ELSE IF Len(args) = 1 /\ args[1].k = "array" THEN nativePositional(args[1].items)
  ELSE IF Len(args) = 1 /\ args[1].k = "mapping" THEN Resolved("named", << >>, NoError)
  ELSE IF \A i \in 1..Len(args) : args[i].k = "value" THEN nativePositional(flat(args))
  ELSE Resolved("error", << >>, ErrMixed)

nativeResolve(h) ==
  IF h.form = "one" THEN nativeResolveOne(h.args[1]) ELSE nativeResolveSpread(h.args)

\* the row SELECT ?, ? returns under a resolution
nativeRow(r) ==
  [i \in 1..NParams |->
     CASE r.kind = "named" -> "mapped"
       [] r.kind = "positional" /\ i <= Len(r.pos) -> r.pos[i]
       [] OTHER -> "null"]

BindOps == {"run", "get", "iterate"}

\* what reaches the caller of a failed call
bind_thrown(a, op, err) ==
  CASE a \in CompleteApis -> convertError(err)
    [] a = "legacy" /\ op = "run" -> legacyWrap(err)
    [] OTHER -> err

Bound(h, executed, row, thrown) ==
  [handed |-> h, executed |-> executed, row |-> row, thrown |-> thrown]

\* the call, h being what the binding handed over and r how the engine read it
bind_resolved(a, op, h, r) ==
  IF r.kind = "error" THEN Bound(h, FALSE, << >>, bind_thrown(a, op, r.err))
  ELSE Bound(h, TRUE, nativeRow(r), NoError)

bind_handed(a, op, h) == bind_resolved(a, op, h, nativeResolve(h))

\* run, get or iterate called with args
bind(a, op, args) == bind_handed(a, op, handed(a, args))

InitBind ==
  /\ api \in Apis
  /\ db = nativeOpen
  /\ busy = FALSE
  /\ openProp = constructorOpen(api)
  /\ stmts = {"SELECT_PARAMS"}
  /\ txn = IdleTxn
  /\ last = NoCall
  /\ cursors = <<>>
  /\ iters = <<>>
  /\ allRes = NoAll
  /\ errIn = NoError
  /\ errOut = NoError
  /\ errSrc = NoSource
  /\ query = NoQuery
  /\ callable = NoCallable
  /\ path = "hello.db"
  /\ memory = constructorMemory(api, path)
  /\ getRes = NoGet
  /\ pragmaRes = NoPragma
  /\ ints = NoInts
  /\ intr = NoIntr
  /\ conc = NoConc
  /\ modes = NoModes
  /\ binds = NoBinds
  /\ syncRes = NoSync
  /\ ovl = NoOvl

BindFixed ==
  UNCHANGED <<api, db, busy, openProp, stmts, txn, cursors, iters, allRes, errIn,
              errOut, errSrc, query, callable, path, memory, getRes, pragmaRes,
              ints, intr, conc, modes, syncRes, ovl>>

\* what the caller sees of a call that ended as r
BindCalled(op, args, r) ==
  /\ last' = Result(op, db.open, r.thrown, "result")
  /\ binds' = [called |-> TRUE, op |-> op, args |-> args, handed |-> r.handed,
               executed |-> r.executed, row |-> r.row, err |-> r.thrown]

\* one call of run, get or iterate on the prepared statement; the experimental
\* Statement has no run()
Bind(op, args) ==
  /\ ~binds.called
  /\ op = "run" => api # "experimental"
  /\ BindCalled(op, args, bind(api, op, args))
  /\ BindFixed

NextBind == \E op \in BindOps, args \in ArgLists : Bind(op, args)

SpecBind == InitBind /\ [][NextBind]_vars

\* the arguments hold a mapping next to something else
Mixed(args) == Len(args) >= 2 /\ \E i \in 1..Len(args) : args[i].k = "mapping"

\* C23: a call to run, get or iterate whose arguments mix a named-parameter
\* mapping with positional values is rejected with an error, and the statement
\* is not executed with any binding derived from that call.
C23_MixedRejected ==
  (binds.called /\ Mixed(binds.args)) =>
    /\ last.threw
    /\ binds.err # NoError
    /\ ~binds.executed
    /\ binds.row = << >>

C23_Witness ==
  /\ binds.called
  /\ api = "legacy"
  /\ binds.op = "get"
  /\ binds.args = <<Mapping, Value("number")>>
  /\ binds.handed = Handed("one", <<Array(<<"mapping", "number">>)>>)
  /\ binds.err.message = BindMessage
  /\ ~binds.executed

\* the arguments are bindable values, one at least
Values(args) == Len(args) >= 1 /\ \A i \in 1..Len(args) : args[i].k = "value"

\* C24: for every non-empty sequence p1..pn of bindable values (number,
\* arbitrary-precision integer, text, boolean, blob or null), passing them as
\* separate arguments binds the same positional parameters as passing the
\* single array [p1..pn]: the two calls return equal results.
C24_Original ==
  (binds.called /\ Values(binds.args)) =>
    /\ binds.executed = bind(api, binds.op, <<Array(flat(binds.args))>>).executed
    /\ binds.row = bind(api, binds.op, <<Array(flat(binds.args))>>).row
    /\ binds.err = bind(api, binds.op, <<Array(flat(binds.args))>>).thrown

(***************************************************************************)
(* sync() on an embedded replica.  syncRes.index is the replica's          *)
(* replication index, syncRes.pending the frames the remote source holds   *)
(* beyond it, syncRes.down whether the remote source is out of reach;      *)
(* syncRes.eng is the engine's answer to the last sync() call, syncRes.out *)
(* and syncRes.err what the caller got.                                    *)
(***************************************************************************)
\* frames the remote source ever holds
MaxFrames == 2

ErrSync == nativeError("SQLITE_ERROR", "1", "sync failed", 1)

\* the object the engine answers with
Synced(frames, index) ==
  [kind |-> "object", fields |-> {"frames_synced", "replication_index"},
   frames_synced |-> frames, replication_index |-> index]

SyncUndefined == [NoSynced EXCEPT !.kind = "undefined"]

\* the engine pulls the outstanding frames, or fails when the source is out of
\* reach
nativeSync(R) ==
  IF R.down THEN [index |-> R.index, pending |-> R.pending, value |-> NoSynced,
                  err |-> ErrSync]
  ELSE [index |-> R.index + R.pending, pending |-> 0,
        value |-> Synced(R.pending, R.index + R.pending), err |-> NoError]

SyncOut(value, thrown) == [value |-> value, thrown |-> thrown]

\* return { frames_synced: result.frames_synced, replication_index:
\* result.replication_index }; or catch (err) { throw convertError(err); }
sync_sync(r) ==
  IF r.err # NoError THEN SyncOut(NoSynced, convertError(r.err))
  ELSE SyncOut([kind |-> "object", fields |-> {"frames_synced", "replication_index"},
                frames_synced |-> r.value.frames_synced,
                replication_index |-> r.value.replication_index], NoError)

\* try { return this.db.sync(); } catch (err) { throw convertError(err); }
\* the promise is returned as it is: its rejection does not pass the catch
sync_promise(r) ==
  IF r.err # NoError THEN SyncOut(NoSynced, r.err) ELSE SyncOut(r.value, NoError)

\* sync() { databaseSyncAsync.call(this.db); }  nothing is returned
sync_legacy(r) == SyncOut(SyncUndefined, NoError)

\* the experimental Database has no sync method
sync_missing(r) == SyncOut(NoSynced, NotAFunction)

sync(a, r) ==
  CASE a = "sync" -> sync_sync(r)
    [] a = "promise" -> sync_promise(r)
    [] a = "legacy" -> sync_legacy(r)
    [] OTHER -> sync_missing(r)

InitSync ==
  /\ api \in Apis
  /\ db = nativeOpen
  /\ busy = FALSE
  /\ openProp = constructorOpen(api)
  /\ stmts = {}
  /\ txn = IdleTxn
  /\ last = NoCall
  /\ cursors = <<>>
  /\ iters = <<>>
  /\ allRes = NoAll
  /\ errIn = NoError
  /\ errOut = NoError
  /\ errSrc = NoSource
  /\ query = NoQuery
  /\ callable = NoCallable
  /\ path = "hello.db"
  /\ memory = constructorMemory(api, path)
  /\ getRes = NoGet
  /\ pragmaRes = NoPragma
  /\ ints = NoInts
  /\ intr = NoIntr
  /\ conc = NoConc
  /\ modes = NoModes
  /\ binds = NoBinds
  /\ syncRes = NoSync
  /\ ovl = NoOvl

SyncFixed ==
  UNCHANGED <<api, db, busy, openProp, stmts, txn, cursors, iters, allRes, errIn,
              errOut, errSrc, query, callable, path, memory, getRes, pragmaRes,
              ints, intr, conc, modes, binds, ovl>>

\* the remote source receives a frame
RemoteWrite ==
  /\ syncRes.index + syncRes.pending < MaxFrames
  /\ syncRes' = [syncRes EXCEPT !.pending = @ + 1]
  /\ UNCHANGED last
  /\ SyncFixed

\* the remote source goes out of reach, or comes back
RemoteReach ==
  /\ syncRes' = [syncRes EXCEPT !.down = ~@]
  /\ UNCHANGED last
  /\ SyncFixed

\* what a sync() call leaves, r being the engine's answer and o what the
\* binding made of it
SyncCalled(r, o) ==
  /\ last' = Result("sync", db.open, o.thrown, "result")
  /\ syncRes' = [syncRes EXCEPT !.index = r.index, !.pending = r.pending,
                                !.called = TRUE,
                                !.eng = [value |-> r.value, err |-> r.err],
                                !.out = o.value, !.err = o.thrown]

SyncAnswered(r) == SyncCalled(r, sync(api, r))

\* the experimental binding never reaches the engine
Sync ==
  /\ IF api = "experimental"
     THEN SyncCalled([index |-> syncRes.index, pending |-> syncRes.pending,
                      value |-> NoSynced, err |-> NoError],
                     sync_missing(NoSynced))
     ELSE SyncAnswered(nativeSync(syncRes))
  /\ SyncFixed

NextSync ==
  \/ RemoteWrite
  \/ RemoteReach
  \/ Sync

SpecSync == InitSync /\ [][NextSync]_vars

\* C25: on an embedded-replica connection every successful sync() returns an
\* object with exactly the fields frames_synced and replication_index, equal
\* to the engine's counters for that synchronization, in the synchronous and
\* in the promise-based API; and every failing sync() surfaces an error that
\* has passed through the Error Translator.
C25_Original ==
  (syncRes.called /\ api \in CompleteApis) =>
    IF syncRes.eng.err = NoError
    THEN /\ syncRes.err = NoError
         /\ syncRes.out = Synced(syncRes.eng.value.frames_synced, syncRes.index)
    ELSE /\ syncRes.err = convertError(syncRes.eng.err)
         /\ syncRes.err.cls = "SqliteError"

(***************************************************************************)
(* Errors of Statement operations as the caller observes them.             *)
(***************************************************************************)
\* the failures the engine flags, as it raises them
RawErrors == {ErrNotOpen, ErrBusy, ErrSql, ErrAuth, ErrInterrupt}

StatementOps == {"iterate", "next", "all", "get", "run"}

\* C26: every engine-flagged failure that a caller observes from a Statement
\* operation of the synchronous or the promise-based connection is a
\* translated error (a SqliteError with decoded message and code, or the
\* not-open TypeError), never the raw error whose message is the JSON-encoded
\* payload; this holds for failures raised by next() on an iterator returned by
\* iterate() as well as for failures raised by iterate(), run(), get() and
\* all() themselves.
C26_Original ==
  (api \in CompleteApis /\ last.op \in StatementOps /\ last.threw) =>
    /\ last.err \notin RawErrors
    /\ last.err.cls \in {"SqliteError", "TypeError"}

\* the same, next() left out
C26_ExceptNext ==
  (api \in CompleteApis /\ last.op \in StatementOps \ {"next"} /\ last.threw) =>
    /\ last.err \notin RawErrors
    /\ last.err.cls \in {"SqliteError", "TypeError"}

(***************************************************************************)
(* Single pass.  cursors[k].yielded are the rows execution k has handed    *)
(* out, in pull order, through the object iterate() returned and through   *)
(* every iterator obtained from it; cursors[k].via says which of the two   *)
(* each row came through.                                                  *)
(***************************************************************************)
IsPrefix(s, t) == Len(s) <= Len(t) /\ s = SubSeq(t, 1, Len(s))

NoRepeat(s) == \A i, j \in 1..Len(s) : i # j => s[i] # s[j]

\* C27: the object returned by iterate() is single-pass and not restartable:
\* requesting an iterator from it, any number of times and at any point, never
\* restarts the result; the rows pulled through the object and through every
\* iterator derived from it, taken together in pull order, form a prefix of
\* the statement's result sequence with no row delivered twice.  Only a new
\* iterate() call re-executes the statement.
C27_SinglePass ==
  \A k \in 1..Len(cursors) :
    /\ IsPrefix(cursors[k].yielded, cursors[k].c.rows)
    /\ NoRepeat(cursors[k].yielded)
    /\ cursors[k].c.pos = Len(cursors[k].yielded)
    /\ cursors[k].late \in {"none", "done"}

C27_Witness ==
  \E k \in 1..Len(cursors) :
    /\ cursors[k].yielded = <<1, 2>>
    /\ cursors[k].via = <<"object", "derived">>
    /\ cursors[k].c.rows = <<1, 2>>

(***************************************************************************)
(* A wrapper invocation whose BEGIN fails.                                 *)
(***************************************************************************)
BeginFailed == Done /\ ~txn.issued[1].ok

\* C28: if the BEGIN issued by a transaction wrapper fails (for example
\* because the connection is already inside a transaction), fn is never
\* called, the wrapper issues neither COMMIT nor ROLLBACK, and the BEGIN error
\* is raised to the caller; the state of a transaction that was already open
\* is left unchanged by the failed invocation.
C28_FailedBeginIsInert ==
  (BeginFailed /\ api \in WrapperApis) =>
    /\ txn.calls = 0
    /\ txn.fn.kind = "none"
    /\ Count("COMMIT") = 0
    /\ Count("ROLLBACK") = 0
    /\ Len(txn.issued) = 1
    /\ txn.out = "raised"
    /\ txn.err = txn.issued[1].err
    /\ db.inTxn = txn.pre.inTxn
    /\ db.table = txn.pre.table
    /\ db.open = txn.pre.open

C28_Witness ==
  /\ BeginFailed /\ api = "promise"
  /\ txn.pre.inTxn /\ db.inTxn
  /\ db.table # db.committed
  /\ txn.err # NoError

(***************************************************************************)
(* An error translated twice.                                              *)
(***************************************************************************)
\* all() over an iterate() that threw what convertError returned: the catch
\* block of all() translates it once more
TranslateAgain ==
  /\ errOut # NoError
  /\ ~allRes.called
  /\ allRes' = [called |-> TRUE, rows |-> << >>,
                err |-> all_caught(Drained(<< >>, errOut)).thrown]
  /\ UNCHANGED <<api, db, busy, openProp, stmts, txn, last, cursors, iters,
                 errIn, errOut, errSrc, query, callable, path, memory, getRes>>
  /\ RestFixed

NextConvert == Translate \/ TranslateAgain

SpecConvert == InitConvert /\ [][NextConvert]_vars

\* the same type, message, code and rawCode
SameContent(e, f) ==
  /\ e.cls = f.cls
  /\ e.message = f.message
  /\ e.code = f.code
  /\ e.rawCode = f.rawCode

\* the decoded message of an engine-flagged payload is again the encoding of
\* an engine-flagged payload
NestedPayload == Flagged(errSrc) /\ errSrc.message = NestedText

\* C29 as the specification states it: error translation is idempotent: for
\* every error e, convertError(convertError(e)) has the same type, message,
\* code and rawCode as convertError(e), including SQLITE_AUTH errors whose
\* translated message is still the JSON payload; an error translated by
\* iterate() and translated again by all() reaches the caller with the same
\* observable content as after one translation.
C29_Original ==
  allRes.called => SameContent(allRes.err, errOut)

\* Apart from that case a second translation changes nothing: the SQLITE_AUTH
\* translation keeps its own payload and decodes to itself, and a decoded
\* message that is plain text is no JSON.
C29_IdempotentOnPlainMessages ==
  (allRes.called /\ (~NestedPayload \/ errSrc.code = "SQLITE_AUTH")) =>
    SameContent(allRes.err, errOut)

(***************************************************************************)
(* Two invocations of a transaction wrapper on one connection of a         *)
(* promise-based binding.  An invocation runs from one await to the next   *)
(* in one step; the engine carries out the calls it is handed one at a     *)
(* time, in the order they were made.  The unit of work is an async        *)
(* function that awaits each write it makes.                               *)
(*                                                                         *)
(* ovl.inv[i]   the wrapper's position (pc), the unit of work's (fn), the  *)
(*              writes it has made (k) and how the wrapper ended (out)     *)
(* ovl.owner    the invocation whose BEGIN opened the transaction the      *)
(*              engine is in, 0 when it is in none                         *)
(* ovl.pending  the invocations with a write in that transaction           *)
(* ovl.stray    <<i, o>>: a write of i took effect while the open          *)
(*              transaction was o's (0: outside every transaction)         *)
(* ovl.foreign  <<i, w>>: a COMMIT or ROLLBACK of i ended a transaction    *)
(*              that held a write of w                                     *)
(***************************************************************************)
PromiseApis == {"promise", "legacy"}

InitOvl ==
  /\ api \in PromiseApis
  /\ db = nativeOpen
  /\ busy = FALSE
  /\ openProp = constructorOpen(api)
  /\ stmts = {"INSERT"}
  /\ txn = IdleTxn
  /\ last = NoCall
  /\ cursors = <<>>
  /\ iters = <<>>
  /\ allRes = NoAll
  /\ errIn = NoError
  /\ errOut = NoError
  /\ errSrc = NoSource
  /\ query = NoQuery
  /\ callable = transaction(api)
  /\ path = "hello.db"
  /\ memory = constructorMemory(api, path)
  /\ getRes = NoGet
  /\ pragmaRes = NoPragma
  /\ ints = NoInts
  /\ intr = NoIntr
  /\ conc = NoConc
  /\ modes = NoModes
  /\ binds = NoBinds
  /\ syncRes = NoSync
  /\ ovl = NoOvl

OvlFixed ==
  UNCHANGED <<api, busy, openProp, stmts, txn, last, cursors, iters, allRes, errIn,
              errOut, errSrc, query, callable, path, memory, getRes, pragmaRes,
              ints, intr, conc, modes, binds, syncRes>>

\* the other invocation's promise is not settled
InFlight(i) == ovl.inv[i].pc \notin {"idle", "done"}

\* a write of invocation i took effect
Wrote(o, i) ==
  [o EXCEPT !.inv[i].k = @ + 1,
            !.pending = IF o.owner # 0 THEN @ \cup {i} ELSE @,
            !.stray = IF o.owner # i THEN @ \cup {<<i, o.owner>>} ELSE @]

\* a COMMIT or ROLLBACK of invocation i ended the open transaction
BracketEnded(o, i) ==
  [o EXCEPT !.foreign = @ \cup {<<i, w>> : w \in o.pending \ {i}},
            !.owner = 0, !.pending = {}]

\* await db.exec("BEGIN " + mode), r being what it returned; then, in the try
\* block, fn(...bindParameters) is called
OvlBegun(i, r) ==
  /\ db' = r.E
  /\ ovl' = IF r.thrown = NoError
            THEN [ovl EXCEPT !.inv[i].pc = "fn", !.inv[i].fn = "running",
                             !.owner = i,
                             !.overlapped = @ \/ \E j \in Invocations \ {i} : InFlight(j)]
            ELSE [ovl EXCEPT !.inv[i].pc = "done", !.inv[i].out = "raised",
                             !.overlapped = @ \/ \E j \in Invocations \ {i} : InFlight(j)]

OvlBegin(i) ==
  /\ ovl.inv[i].pc = "idle"
  /\ OvlBegun(i, exec(api, db, busy, beginSql(api, "default")))
  /\ OvlFixed

\* the unit of work's  await db.exec("INSERT ..."), r being what it returned
OvlWritten(i, r) ==
  /\ db' = r.E
  /\ ovl' = IF r.thrown = NoError THEN Wrote(ovl, i)
            ELSE [ovl EXCEPT !.inv[i].fn = "rejected"]

OvlWrite(i) ==
  /\ ovl.inv[i].fn = "running"
  /\ db.nwrites < MaxWrites
  /\ OvlWritten(i, exec(api, db, busy, <<"INSERT">>))
  /\ OvlFixed

\* the unit of work returns, or throws: its promise resolves or rejects
OvlFnEnd(i, kind) ==
  /\ ovl.inv[i].fn = "running"
  /\ ovl' = [ovl EXCEPT !.inv[i].fn = kind]
  /\ UNCHANGED db
  /\ OvlFixed

\* const result = await fn(...): the wrapper goes on once fn's promise has
\* resolved.  const result = fn(...) of the early binding: the wrapper goes on
\* as soon as fn has handed the engine its first call.
fnAwaited(a, inv) ==
  IF a = "promise" THEN inv.fn = "resolved"
  ELSE inv.k >= 1 \/ inv.fn # "running"

\* await db.exec("COMMIT"); return result;  r being what exec returned
OvlCommitted(i, r) ==
  /\ db' = r.E
  /\ ovl' = IF r.thrown = NoError
            THEN [BracketEnded(ovl, i) EXCEPT !.inv[i].pc = "done", !.inv[i].out = "returned"]
            ELSE [ovl EXCEPT !.inv[i].pc = "catch"]

OvlCommit(i) ==
  /\ ovl.inv[i].pc = "fn"
  /\ fnAwaited(api, ovl.inv[i])
  /\ OvlCommitted(i, exec(api, db, busy, <<"COMMIT">>))
  /\ OvlFixed

\* catch (err) { await db.exec("ROLLBACK"); throw err; }
OvlRolledBack(i, r) ==
  /\ db' = r.E
  /\ ovl' = IF r.thrown = NoError
            THEN [BracketEnded(ovl, i) EXCEPT !.inv[i].pc = "done", !.inv[i].out = "raised"]
            ELSE [ovl EXCEPT !.inv[i].pc = "done", !.inv[i].out = "raised"]

\* the await in the try block threw: fn's promise rejected, or COMMIT failed
caughtInTry(a, inv) ==
  inv.pc = "catch" \/ (a = "promise" /\ inv.pc = "fn" /\ inv.fn = "rejected")

OvlRollback(i) ==
  /\ caughtInTry(api, ovl.inv[i])
  /\ OvlRolledBack(i, exec(api, db, busy, <<"ROLLBACK">>))
  /\ OvlFixed

NextOvl ==
  \/ \E i \in Invocations : OvlBegin(i)
  \/ \E i \in Invocations : OvlWrite(i)
  \/ \E i \in Invocations, kind \in {"resolved", "rejected"} : OvlFnEnd(i, kind)
  \/ \E i \in Invocations : OvlCommit(i)
  \/ \E i \in Invocations : OvlRollback(i)

SpecOvl == InitOvl /\ [][NextOvl]_vars

\* C30 as the specification states it: in the promise-based API, when two
\* transaction wrapper invocations on the same connection overlap in time,
\* under every interleaving the writes of one invocation's unit of work are
\* committed or rolled back only by that invocation's own COMMIT or ROLLBACK,
\* and no write takes effect outside the BEGIN..COMMIT bracket of its own
\* invocation.
C30_Original ==
  ovl.overlapped => (ovl.stray = {} /\ ovl.foreign = {})

\* On the binding that awaits the unit of work the brackets are kept apart: an
\* invocation that begins while the other's transaction is open fails at its
\* BEGIN and makes no write.
C30_Awaited ==
  (api = "promise" /\ ovl.overlapped) => (ovl.stray = {} /\ ovl.foreign = {})

=============================================================================
